---- MODULE Spec2Model ----
(***************************************************************************)
(* Model of the chat analysis and daily aggregation pipeline of            *)
(* backend/open_webui/services/analytics_processor.py                      *)
(* (AnalyticsProcessor.process_chats_for_date and the operations it        *)
(* calls), with the three Cogniforce tables it writes: chat_analysis,       *)
(* daily_aggregates and processing_log.                                     *)
(*                                                                         *)
(* Modelling conventions                                                    *)
(*  - avg_confidence_level is a Float column; the model computes it with    *)
(*    exact rationals <<numerator, denominator>> in lowest terms, i.e. it   *)
(*    idealises floating point rounding away.                               *)
(*  - every database operation may raise (a lost connection, a failed       *)
(*    commit); the model chooses that nondeterministically.                 *)
(*  - the LLM is an external service: each call yields no estimate or one   *)
(*    of the answers of LLMAnswers.                                         *)
(*  - process_chats_for_date is a coroutine without any suspension point    *)
(*    (every coroutine it awaits is synchronous inside: the blocking        *)
(*    openai.OpenAI client and synchronous SQLAlchemy sessions), so the     *)
(*    event loop of a process runs one batch run from start to end before   *)
(*    it can start another.                                                 *)
(***************************************************************************)
EXTENDS Integers, Sequences, FiniteSets, TLC

\* ---------------------------------------------------------------- bounds
NChats == 3
MaxRuns == 2
MaxMessages == 4
CacheChats == 1
CacheRuns == 1
WorkerChats == 2
SchedulerChats == 1
MaxFirings == 2
LruMaxSize == 2
DefaultTtl == 2
MaxTime == 2
MaxSalt == 2
FailureThreshold == 2
RecoveryTimeout == 2
MaxClock == 6
MaxFailures == 5
LongRetry == 1027
MaxInvocations == 2
MaxResponseLen == 6

\* ------------------------------------------------------------- constants
\* analytics_cache = AnalyticsCache(max_size=500, default_ttl=300)
AnalyticsMaxSize == 500
AnalyticsTtl == 300
\* the doubles end below 2^1024
DoubleMaxExponent == 1024
\* RetryConfig(max_attempts=3, ...) of resilient_database_operation
ResilientAttempts == 3
NULL == "NULL"
Users == {"u1", "u2"}
Dates == {1, 2}

\* The kinds of chat the external chat store can hold: a chat without
\* messages (its user and date never reach the tables), and, for every
\* user and creation time, a chat with two messages whose timestamps give
\* eight (u1) or three (u2) active minutes.  created_at counts half days of local time since
\* the epoch: 3 falls on day 1, 4 on day 2.  The contents of the messages
\* are strings; SummarySpec examines titles and contents of every kind.
ChatKinds ==
  << [user |-> "u1", created_at |-> 3, messages |-> 0, active |-> 0],
     [user |-> "u1", created_at |-> 3, messages |-> 2, active |-> 8],
     [user |-> "u1", created_at |-> 4, messages |-> 2, active |-> 8],
     [user |-> "u2", created_at |-> 3, messages |-> 2, active |-> 3],
     [user |-> "u2", created_at |-> 4, messages |-> 2, active |-> 3] >>

\* Answers of the LLM, as decoded JSON: a well-formed estimate, one with
\* values out of range (a negative low, a confidence above 100), one whose
\* low/most_likely/high are out of order, and one with a value int()
\* cannot convert (numeric FALSE: a word, a null).
LLMAnswers ==
  { [numeric |-> TRUE,  low |-> 30, most_likely |-> 60, high |-> 90, confidence |-> 80],
    [numeric |-> TRUE,  low |-> -1, most_likely |-> 5,  high |-> 9,  confidence |-> 190],
    [numeric |-> TRUE,  low |-> 50, most_likely |-> 20, high |-> 10, confidence |-> 90],
    [numeric |-> FALSE, low |-> 30, most_likely |-> 60, high |-> 90, confidence |-> 80] }

RunIds == 1..MaxRuns

VARIABLES
  chatStore,        \* the OpenWebUI chat table: sequence of chat records
  chat_analysis,    \* table chat_analysis: set of rows
  daily_aggregates, \* table daily_aggregates: set of rows
  processing_log,   \* table processing_log: run id -> row (status "absent" before creation);
                    \* the columns the pipeline writes once and never reads (target_date,
                    \* started_at, completed_at, durations, cost) are left out
  run,              \* run id -> the locals of that call of process_chats_for_date
  folded,           \* history: per (date, user) the confidence sum and count of all results committed by aggregation passes
  call,             \* a call of one of the pure functions of the processor or of a cached read query: its arguments and, once it has returned, its value
  analytics_cache   \* the module-level AnalyticsCache: set of entries, at most one per key

vars == <<chatStore, chat_analysis, daily_aggregates, processing_log, run, folded, call, analytics_cache>>

\* ------------------------------------------------------------- rationals
RECURSIVE Gcd(_, _)
Gcd(a, b) == IF b = 0 THEN a ELSE Gcd(b, a % b)

Rat(n, d) == LET g == Gcd(n, d) IN IF g = 0 THEN <<0, 1>> ELSE <<n \div g, d \div g>>
RatFromInt(k) == <<k, 1>>
RatAdd(p, q) == Rat(p[1] * q[2] + q[1] * p[2], p[2] * q[2])
RatMul(p, q) == Rat(p[1] * q[1], p[2] * q[2])
RatDiv(p, q) == Rat(p[1] * q[2], p[2] * q[1])

\* ------------------------------------------------------ sequence helpers
\* sum(r.<field> for r in s)
RECURSIVE SumField(_, _)
SumField(s, f) == IF s = <<>> THEN 0 ELSE Head(s)[f] + SumField(Tail(s), f)

\* [r for r in s if r.<field> == v], order kept
RECURSIVE SelectField(_, _, _)
SelectField(s, f, v) ==
  IF s = <<>> THEN <<>>
  ELSE IF Head(s)[f] = v THEN <<Head(s)>> \o SelectField(Tail(s), f, v)
       ELSE SelectField(Tail(s), f, v)

\* the values of <field> in s in order of first appearance (the key order
\* of the dict the code groups into)
RECURSIVE KeysInOrder(_, _, _)
KeysInOrder(s, f, seen) ==
  IF s = <<>> THEN <<>>
  ELSE IF Head(s)[f] \in seen THEN KeysInOrder(Tail(s), f, seen)
       ELSE <<Head(s)[f]>> \o KeysInOrder(Tail(s), f, seen \cup {Head(s)[f]})

\* ------------------------------------------------- _update_daily_aggregates
\* avg_confidence of a group: sum(r.confidence_level) / len(group)
BatchAvgConfidence(rs) == Rat(SumField(rs, "confidence_level"), Len(rs))

\* faulty variant of FindAggregates: the lookup never finds the row
FindNoAggregate(table, d, u) == {}

\* db.query(DailyAggregate).filter_by(analysis_date=d, user_id=u)
FindAggregates(table, d, u) ==
  {row \in table : row.analysis_date = d /\ row.user_id = u}

\* DailyAggregate(...) built from the totals of a group
NewAggregate(table, d, u, rs) ==
  [ id |-> Cardinality(table) + 1,
    analysis_date |-> d,
    user_id |-> u,
    chat_count |-> Len(rs),
    message_count |-> SumField(rs, "message_count"),
    total_time_saved |-> SumField(rs, "time_saved_minutes"),
    total_active_time |-> SumField(rs, "active_duration_minutes"),
    total_manual_time_estimated |-> SumField(rs, "manual_time_most_likely"),
    avg_confidence_level |-> BatchAvgConfidence(rs) ]

\* the counts and sums of an existing row increased by those of a group
AddTotals(row, rs) ==
  [ row EXCEPT
      !.chat_count = @ + Len(rs),
      !.message_count = @ + SumField(rs, "message_count"),
      !.total_time_saved = @ + SumField(rs, "time_saved_minutes"),
      !.total_active_time = @ + SumField(rs, "active_duration_minutes"),
      !.total_manual_time_estimated = @ + SumField(rs, "manual_time_most_likely") ]

\* faulty variant of GlobalMergedConfidence: the plain mean of the two averages
NaiveMergedConfidence(old_avg, chat_count, total_chats, avg_confidence) ==
  IF chat_count - total_chats > 0
  THEN RatDiv(RatAdd(old_avg, avg_confidence), RatFromInt(2))
  ELSE avg_confidence

\* avg_confidence_level of an existing global row after the merge; the
\* row's chat_count has already been increased when this is computed
GlobalMergedConfidence(old_avg, chat_count, total_chats, avg_confidence) ==
  LET existing_weight == chat_count - total_chats
  IN IF existing_weight > 0
     THEN RatDiv(RatAdd(RatMul(old_avg, RatFromInt(existing_weight)),
                        RatMul(avg_confidence, RatFromInt(total_chats))),
                 RatFromInt(chat_count))
     ELSE avg_confidence

\* avg_confidence_level of an existing per-user row after the merge
UserMergedConfidence(old_avg, chat_count, user_total_chats, user_avg_confidence) ==
  user_avg_confidence

\* upsert of the global row (user_id NULL) of date d with the date's results
UpsertGlobal(table, d, date_results) ==
  LET found == FindAggregates(table, d, NULL)
  IN IF found # {}
     THEN LET existing_aggregate == CHOOSE row \in found : TRUE
              added == AddTotals(existing_aggregate, date_results)
              merged == [added EXCEPT !.avg_confidence_level =
                           GlobalMergedConfidence(existing_aggregate.avg_confidence_level,
                                                  added.chat_count, Len(date_results),
                                                  BatchAvgConfidence(date_results))]
          IN (table \ {existing_aggregate}) \cup {merged}
     ELSE table \cup {NewAggregate(table, d, NULL, date_results)}

\* faulty variant of UpsertUser: the totals of an existing row are replaced
\* by those of the group, as its average is
UpsertUserOverwrites(table, d, user_id, user_results) ==
  LET found == FindAggregates(table, d, user_id)
  IN IF found # {}
     THEN LET existing_user_aggregate == CHOOSE row \in found : TRUE
          IN (table \ {existing_user_aggregate})
             \cup {[NewAggregate(table, d, user_id, user_results)
                      EXCEPT !.id = existing_user_aggregate.id]}
     ELSE table \cup {NewAggregate(table, d, user_id, user_results)}

\* upsert of the row of (d, user_id) with that user's results of the date
UpsertUser(table, d, user_id, user_results) ==
  LET found == FindAggregates(table, d, user_id)
  IN IF found # {}
     THEN LET existing_user_aggregate == CHOOSE row \in found : TRUE
              added == AddTotals(existing_user_aggregate, user_results)
              merged == [added EXCEPT !.avg_confidence_level =
                           UserMergedConfidence(existing_user_aggregate.avg_confidence_level,
                                                added.chat_count, Len(user_results),
                                                BatchAvgConfidence(user_results))]
          IN (table \ {existing_user_aggregate}) \cup {merged}
     ELSE table \cup {NewAggregate(table, d, user_id, user_results)}

\* the per-user upserts of one date, in the order of results_by_user
RECURSIVE UpsertUsers(_, _, _, _)
UpsertUsers(table, d, date_results, users) ==
  IF users = <<>> THEN table
  ELSE UpsertUsers(UpsertUser(table, d, Head(users),
                              SelectField(date_results, "user_id", Head(users))),
                   d, date_results, Tail(users))

\* one iteration of the loop over results_by_date: global row, then users
UpsertDate(table, d, results) ==
  LET date_results == SelectField(results, "chat_date", d)
  IN UpsertUsers(UpsertGlobal(table, d, date_results), d, date_results,
                 KeysInOrder(date_results, "user_id", {}))

\* the rows as the session sees them after the first n dates of the loop
RECURSIVE SessionAfter(_, _, _)
SessionAfter(table, results, n) ==
  IF n = 0 THEN table
  ELSE UpsertDate(SessionAfter(table, results, n - 1),
                  KeysInOrder(results, "chat_date", {})[n], results)

NumDates(results) == Len(KeysInOrder(results, "chat_date", {}))

\* faulty variant of CommittedAggregates: each date is committed as soon as it is
\* handled, so a later failure leaves the earlier dates in the table
CommittedPerDate(table, results, faultAt) ==
  IF faultAt = 0 THEN SessionAfter(table, results, NumDates(results))
  ELSE SessionAfter(table, results, faultAt - 1)

\* The committed table after a pass over a non-empty results list.
\* faultAt = 0: every date is handled and db.commit() succeeds.
\* faultAt = p in 1..NumDates: an exception is raised while date p is
\* handled; faultAt = NumDates + 1: db.commit() raises.  In both cases the
\* session (autocommit=False, autoflush=False) is closed without a commit
\* and nothing it changed reaches the table.
CommittedAggregates(table, results, faultAt) ==
  IF faultAt = 0 THEN SessionAfter(table, results, NumDates(results)) ELSE table

\* history of what committed passes folded in, per (date, user-or-NULL)
FoldInto(f, results) ==
  [k \in DOMAIN f |->
     LET rs == IF k[2] = NULL THEN SelectField(results, "chat_date", k[1])
               ELSE SelectField(SelectField(results, "chat_date", k[1]), "user_id", k[2])
     IN [conf |-> f[k].conf + SumField(rs, "confidence_level"),
         chats |-> f[k].chats + Len(rs),
         messages |-> f[k].messages + SumField(rs, "message_count"),
         saved |-> f[k].saved + SumField(rs, "time_saved_minutes"),
         active |-> f[k].active + SumField(rs, "active_duration_minutes"),
         manual |-> f[k].manual + SumField(rs, "manual_time_most_likely"),
         passes |-> f[k].passes + (IF rs = <<>> THEN 0 ELSE 1)] ]

\* ------------------------------------------------------ float arithmetic
\* gap_minutes and active_minutes are Python floats (IEEE 754 doubles).  A
\* non-negative double below 2^15 with no bits below 2^-60 is held exactly
\* as <<hi, mid, lo>>, its value being hi + mid / 2^30 + lo / 2^60 with
\* mid, lo < 2^30; every double that arises from whole seconds divided by
\* 60 and from sums of such quotients is of this kind.
RECURSIVE BitLen(_)
BitLen(x) == IF x = 0 THEN 0 ELSE 1 + BitLen(x \div 2)

\* round to nearest, ties to even, at 53 significant bits; sticky tells
\* that the exact value has non-zero bits below 2^-60
Round53(hi, mid, lo, sticky) ==
  LET d == IF hi > 0 THEN BitLen(hi) + 7 ELSE BitLen(mid) - 23
  IN IF d <= 0 THEN <<hi, mid, lo>>
     ELSE LET keep == lo \div (2^d)
              tail == lo % (2^d)
              half == 2^(d - 1)
              up == IF tail > half \/ (tail = half /\ (sticky \/ keep % 2 = 1)) THEN 1 ELSE 0
              lo2 == (keep + up) * (2^d)
              mid2 == mid + (lo2 \div (2^30))
          IN <<hi + (mid2 \div (2^30)), mid2 % (2^30), lo2 % (2^30)>>

\* seconds / 60 for a whole, non-negative number of seconds
FloatDiv60(seconds) ==
  LET r0 == seconds % 60
      q1 == (r0 * (2^15)) \div 60
      r1 == (r0 * (2^15)) % 60
      q2 == (r1 * (2^15)) \div 60
      r2 == (r1 * (2^15)) % 60
      q3 == (r2 * (2^15)) \div 60
      r3 == (r2 * (2^15)) % 60
      q4 == (r3 * (2^15)) \div 60
      r4 == (r3 * (2^15)) % 60
  IN Round53(seconds \div 60, q1 * (2^15) + q2, q3 * (2^15) + q4, r4 # 0)

\* a + b
FloatAdd(a, b) ==
  LET lo == a[3] + b[3]
      mid == a[2] + b[2] + (lo \div (2^30))
  IN Round53(a[1] + b[1] + (mid \div (2^30)), mid % (2^30), lo % (2^30), FALSE)

\* a <= n for a whole number n
FloatLeqInt(a, n) == a[1] < n \/ (a[1] = n /\ a[2] = 0 /\ a[3] = 0)

\* int(a)
FloatToInt(a) == a[1]

\* int(delta.total_seconds() / 60); int() truncates towards zero
MinutesOf(seconds) ==
  IF seconds >= 0 THEN FloatToInt(FloatDiv60(seconds)) ELSE 0 - FloatToInt(FloatDiv60(0 - seconds))

\* ------------------------------------------------------------ time metrics
\* self.idle_threshold_minutes
idle_threshold_minutes == 10

\* the loop of _calculate_active_duration from position i on
RECURSIVE ActiveMinutesFrom(_, _, _)
ActiveMinutesFrom(sorted_timestamps, i, active_minutes) ==
  IF i > Len(sorted_timestamps) THEN active_minutes
  ELSE LET gap_minutes == FloatDiv60(sorted_timestamps[i] - sorted_timestamps[i - 1])
       IN ActiveMinutesFrom(sorted_timestamps, i + 1,
            IF FloatLeqInt(gap_minutes, idle_threshold_minutes)
            THEN FloatAdd(active_minutes, gap_minutes)
            ELSE active_minutes)

\* _calculate_active_duration; timestamps are whole seconds
CalculateActiveDuration(timestamps) ==
  IF Len(timestamps) < 2 THEN 0
  ELSE FloatToInt(ActiveMinutesFrom(SortSeq(timestamps, LAMBDA a, b : a < b), 2, <<0, 0, 0>>))

\* min(timestamps), max(timestamps)
MinOf(timestamps) == CHOOSE t \in {timestamps[i] : i \in DOMAIN timestamps} :
                       \A i \in DOMAIN timestamps : t <= timestamps[i]
MaxOf(timestamps) == CHOOSE t \in {timestamps[i] : i \in DOMAIN timestamps} :
                       \A i \in DOMAIN timestamps : t >= timestamps[i]

\* the timestamps of the messages that carry one, in message order
RECURSIVE TimestampsOf(_)
TimestampsOf(messages) ==
  IF messages = <<>> THEN <<>>
  ELSE IF "timestamp" \in DOMAIN Head(messages)
       THEN <<Head(messages).timestamp>> \o TimestampsOf(Tail(messages))
       ELSE TimestampsOf(Tail(messages))

\* _calculate_time_metrics
CalculateTimeMetrics(messages, conv_data) ==
  IF messages = <<>>
  THEN [first_message_at |-> "now", last_message_at |-> "now", total_duration_minutes |-> 0,
        active_duration_minutes |-> 0, idle_time_minutes |-> 0]
  ELSE LET timestamps == TimestampsOf(messages)
           first_message_at == IF timestamps = <<>> THEN conv_data.created_at ELSE MinOf(timestamps)
           last_message_at == IF timestamps = <<>> THEN conv_data.updated_at ELSE MaxOf(timestamps)
           total_duration_minutes == MinutesOf(last_message_at - first_message_at)
           active_duration_minutes == CalculateActiveDuration(timestamps)
       IN [first_message_at |-> first_message_at, last_message_at |-> last_message_at,
           total_duration_minutes |-> total_duration_minutes,
           active_duration_minutes |-> active_duration_minutes,
           idle_time_minutes |-> IF total_duration_minutes - active_duration_minutes >= 0
                                 THEN total_duration_minutes - active_duration_minutes ELSE 0]

\* ---------------------------------------------------------- per-chat steps
Max(a, b) == IF a >= b THEN a ELSE b
Min(a, b) == IF a <= b THEN a ELSE b

\* _parse_time_estimates: every value clamped on its own; when int()
\* raises ValueError or TypeError for a value, all four default to 0
ParseTimeEstimates(llm_response) ==
  IF llm_response.numeric
  THEN [ low |-> Max(0, llm_response.low),
         most_likely |-> Max(0, llm_response.most_likely),
         high |-> Max(0, llm_response.high),
         confidence |-> Max(0, Min(100, llm_response.confidence)) ]
  ELSE [low |-> 0, most_likely |-> 0, high |-> 0, confidence |-> 0]

\* faulty variant of TimeSaved: the active time is not subtracted
TimeSavedIsEstimate(most_likely, active_duration) == most_likely

\* time_saved = max(0, manual_time_most_likely - active_duration)
TimeSaved(most_likely, active_duration) == Max(0, most_likely - active_duration)

\* datetime.fromtimestamp(created_at).date(): the calendar day, in local
\* time, on which the timestamp falls
DateOf(created_at) == created_at \div 2

\* faulty variant of ChatDate: the chat is dated by the date the run targets
ChatDateIsTargetDate(conv_data, target_date) == target_date

\* line 342: chat_date is derived from conv_data['created_at']; the
\* target_date of the run that analyzes the chat is not read
ChatDate(conv_data, target_date) == DateOf(conv_data.created_at)

\* the ChatAnalysis row _store_analysis_results builds for chat c
AnalysisRow(table, c, chat, chat_date, est) ==
  [ id |-> Cardinality(table) + 1,
    chat_id |-> c,
    user_id |-> chat.user,
    chat_date |-> chat_date,
    active_duration_minutes |-> chat.active,
    manual_time_low |-> est.low,
    manual_time_most_likely |-> est.most_likely,
    manual_time_high |-> est.high,
    confidence_level |-> est.confidence,
    time_saved_minutes |-> TimeSaved(est.most_likely, chat.active),
    message_count |-> chat.messages ]

\* faulty variant of ChatAnalysisChecks: the table has no CHECK constraint
NoChatAnalysisChecks(row) == TRUE

\* the CHECK constraints of table chat_analysis
ChatAnalysisChecks(row) ==
  /\ row.active_duration_minutes >= 0 /\ row.time_saved_minutes >= 0
  /\ row.confidence_level >= 0 /\ row.confidence_level <= 100
  /\ row.manual_time_low <= row.manual_time_most_likely
  /\ row.manual_time_most_likely <= row.manual_time_high

\* faulty variant of ChatIdUnique: the column is not declared unique
ChatIdNotChecked(table, row) == TRUE

\* the UNIQUE constraint on chat_analysis.chat_id
ChatIdUnique(table, row) == \A old \in table : old.chat_id # row.chat_id

\* faulty variant of InsertAccepted: a row for a chat id that has one is taken
InsertAcceptedAgain(table, row) == ChatAnalysisChecks(row)

\* db.add(analysis); db.commit(): the insert is accepted
InsertAccepted(table, row) == ChatAnalysisChecks(row) /\ ChatIdUnique(table, row)

\* the ChatAnalysisResult _analyze_chat returns for a stored row
ResultOf(row) ==
  [ chat_id |-> row.chat_id,
    chat_date |-> row.chat_date,
    user_id |-> row.user_id,
    time_saved_minutes |-> row.time_saved_minutes,
    active_duration_minutes |-> row.active_duration_minutes,
    manual_time_most_likely |-> row.manual_time_most_likely,
    message_count |-> row.message_count,
    confidence_level |-> row.confidence_level ]

\* _fetch_chats_for_date: every chat, ordered by created_at descending
RECURSIVE OrderByCreatedDesc(_, _)
OrderByCreatedDesc(store, ids) ==
  IF ids = {} THEN <<>>
  ELSE LET top == CHOOSE c \in ids : \A o \in ids :
                     \/ store[c].created_at > store[o].created_at
                     \/ store[c].created_at = store[o].created_at /\ c <= o
       IN <<top>> \o OrderByCreatedDesc(store, ids \ {top})

\* -------------------------------------------------------- the read cache
\* str() of the module-level AnalyticsTable instance, the first positional
\* argument of every cached query
Analytics == "Analytics"

\* AnalyticsCache._generate_cache_key(prefix, *args): the md5 digest of
\* prefix, json.dumps(args) and json.dumps(kwargs); no call site passes a
\* keyword argument; args is the sequence of the JSON texts of the
\* positional arguments, and two keys are equal exactly when prefix and
\* texts are
GenerateCacheKey(prefix, args) == <<prefix, args>>

\* cached: the key of a call of the decorated function func
CacheKeyGenerator(func, args) == GenerateCacheKey("analytics:" \o func, args)

\* AnalyticsCache.set (the cache never holds max_size = 500 entries here)
CacheSet(cache, key, value, created_at) ==
  {e \in cache : e.key # key} \cup {[key |-> key, value |-> value, created_at |-> created_at]}

\* AnalyticsCache.delete
CacheDelete(cache, keys) == {e \in cache : e.key \notin keys}

\* the keys process_chats_for_date deletes, lines 182-210.  The attribute
\* get_daily_trend_data does not exist on AnalyticsTable: the access raises
\* AttributeError inside the bare try/except of lines 188-191.
ProcessorInvalidatedKeys ==
  {CacheKeyGenerator("get_summary_data", <<Analytics>>)}
  \cup {CacheKeyGenerator("get_user_breakdown_data", <<Analytics, limit>>) : limit \in {"10", "20", "50"}}
  \cup {CacheKeyGenerator("get_chats_data", <<Analytics, limit, offset>>) :
          limit \in {"20", "50", "100"}, offset \in {"0", "20", "40"}}
  \cup {CacheKeyGenerator("get_health_status_data", <<Analytics>>)}

InvalidateAfterProcessing(cache) == CacheDelete(cache, ProcessorInvalidatedKeys)

\* the keys trigger_analytics_processing deletes after a run that did not
\* return 'failed'
RouterInvalidatedKeys ==
  ProcessorInvalidatedKeys \cup {CacheKeyGenerator("get_trends_data", <<Analytics>>)}

\* ------------------------------------------------------------ state, Init
\* no pure function is being examined
NoCall == [fn |-> "none"]

NoResult == [status |-> "none", chats_processed |-> 0, chats_failed |-> 0]

IdleRun ==
  [ pc |-> "idle", target_date |-> 0, chats |-> <<>>, idx |-> 0, results |-> <<>>,
    processed_count |-> 0, failed_count |-> 0, total_llm_requests |-> 0,
    error |-> "", raised |-> "", result |-> NoResult,
    \* the daily_aggregates rows the session of _update_daily_aggregates
    \* has loaded and not yet committed (empty outside the pass)
    seen |-> {},
    \* history of the run, not program state
    skipped |-> 0, llm_failed |-> 0, store_failed |-> 0 ]

\* what is left of a call when it has returned or raised: its locals are
\* gone, the caller holds the returned result or the raised exception
\* (error: the exception the except block caught, raised: the exception
\* that left the call)
Finished(pc, result, error, raised) ==
  [IdleRun EXCEPT !.pc = pc, !.result = result, !.error = error, !.raised = raised]

AbsentLog ==
  [ status |-> "absent", chats_processed |-> 0, chats_failed |-> 0,
    total_llm_requests |-> 0, error_message |-> "", writes |-> 0 ]

AggKeys == Dates \X (Users \cup {NULL})

\* the chat store holds up to NChats chats (kept sorted by kind: the order
\* of the chats in the store has no meaning)
ChatStores ==
  UNION { { st \in [1..n -> 1..Len(ChatKinds)] : \A i \in 1..(n-1) : st[i] <= st[i+1] }
          : n \in 0..NChats }

Init ==
  /\ \E st \in ChatStores : chatStore = [i \in DOMAIN st |-> ChatKinds[st[i]]]
  /\ chat_analysis = {}
  /\ daily_aggregates = {}
  /\ processing_log = [r \in RunIds |-> AbsentLog]
  /\ run = [r \in RunIds |-> IdleRun]
  /\ folded = [k \in AggKeys |-> [conf |-> 0, chats |-> 0, messages |-> 0, saved |-> 0,
                                active |-> 0, manual |-> 0, passes |-> 0]]
  /\ call = NoCall
  /\ analytics_cache = {}

Executing(r) == run[r].pc \notin {"idle", "returned", "raised"}

\* ----------------------------------------------------------------- actions
\* faulty variant of EventLoopFree: a run suspends at its awaits, so the loop
\* takes up the next request while a run is in progress
LoopTakesNextRequest == TRUE

\* The event loop is free: no call of process_chats_for_date is in
\* progress.  A run never suspends, so the loop takes up the next request
\* or job only when the run in progress has returned or raised.
EventLoopFree == \A o \in RunIds : ~Executing(o)

\* faulty variant of CompletedLogRow: the status is not written
CompletedLogRowKeepsStatus(row, status, chats_processed, chats_failed, total_llm_requests, error_message) ==
  [ row EXCEPT !.chats_processed = chats_processed,
               !.chats_failed = chats_failed,
               !.total_llm_requests = total_llm_requests,
               !.error_message = error_message,
               !.writes = @ + 1 ]

\* faulty variant of CompletedLogRow: the error message is not written
CompletedLogRowNoMessage(row, status, chats_processed, chats_failed, total_llm_requests, error_message) ==
  [ row EXCEPT !.status = status,
               !.chats_processed = chats_processed,
               !.chats_failed = chats_failed,
               !.total_llm_requests = total_llm_requests,
               !.writes = @ + 1 ]

\* the row written by _complete_processing_log (fields not passed take
\* their kwargs default)
CompletedLogRow(row, status, chats_processed, chats_failed, total_llm_requests, error_message) ==
  [ row EXCEPT !.status = status,
               !.chats_processed = chats_processed,
               !.chats_failed = chats_failed,
               !.total_llm_requests = total_llm_requests,
               !.error_message = error_message,
               !.writes = @ + 1 ]

\* process_chats_for_date, lines 77-80: a request or job starts run r and
\* _create_processing_log inserts its row; if the insert raises, the
\* exception leaves process_chats_for_date before the try block.
StartRun(r) ==
  /\ run[r].pc = "idle"
  /\ \A o \in RunIds : o < r => run[o].pc # "idle"
  /\ EventLoopFree
  /\ \E target_date \in Dates, ok \in BOOLEAN :
       IF ok
       THEN /\ processing_log' = [processing_log EXCEPT ![r] =
                 [AbsentLog EXCEPT !.status = "running"]]
            /\ run' = [run EXCEPT ![r] = [IdleRun EXCEPT !.pc = "fetch", !.target_date = target_date]]
       ELSE /\ processing_log' = processing_log
            /\ run' = [run EXCEPT ![r] = Finished("raised", NoResult, "", "create_log_error")]
  /\ UNCHANGED <<call, analytics_cache, chatStore, chat_analysis, daily_aggregates, folded>>

\* lines 92-108: _fetch_chats_for_date; an empty list goes straight to
\* the completion of the log
FetchChats(r) ==
  /\ run[r].pc = "fetch"
  /\ \E ok \in BOOLEAN :
       IF ok
       THEN LET chats == OrderByCreatedDesc(chatStore, DOMAIN chatStore)
            IN run' = [run EXCEPT ![r].chats = chats,
                                  ![r].pc = IF chats = <<>> THEN "complete" ELSE "analyze"]
       ELSE run' = [run EXCEPT ![r].pc = "handler", ![r].error = "fetch_error"]
  /\ UNCHANGED <<call, analytics_cache, chatStore, chat_analysis, daily_aggregates, processing_log, folded>>

\* faulty variant of AfterChat: the aggregation follows the first chat
AfterChatAggregate(rec) == [rec EXCEPT !.idx = @ + 1, !.pc = "aggregate"]

\* after the chat at position idx: next chat, or the aggregation step
AfterChat(rec) ==
  [rec EXCEPT !.idx = @ + 1,
              !.pc = IF rec.idx + 1 = Len(rec.chats) THEN "aggregate" ELSE "analyze"]

\* faulty variant of ChatFailed: the failure is not counted
ChatFailedUncounted(rec) == AfterChat(rec)

\* faulty variant of ChatFailed: the chat is counted as processed
ChatFailedCountedProcessed(rec) == AfterChat([rec EXCEPT !.processed_count = @ + 1])

\* one iteration of the loop of lines 118-143 when _analyze_chat gives None
ChatFailed(rec) == AfterChat([rec EXCEPT !.failed_count = @ + 1])

\* one iteration of the loop when _analyze_chat gives a result
ChatProcessed(rec, result) ==
  AfterChat([rec EXCEPT !.results = Append(@, result),
                        !.processed_count = @ + 1,
                        !.total_llm_requests = @ + 1])

\* lines 118-143 with _analyze_chat (265-372): the chat at position idx
AnalyzeChat(r) ==
  /\ run[r].pc = "analyze"
  /\ LET c == run[r].chats[run[r].idx + 1]
         chat == chatStore[c]
     IN IF chat.messages = 0
        THEN \* no messages: _analyze_chat returns None
             /\ run' = [run EXCEPT ![r] = ChatFailed([run[r] EXCEPT !.skipped = @ + 1])]
             /\ UNCHANGED chat_analysis
        ELSE \/ \* _estimate_manual_time returns None
                /\ run' = [run EXCEPT ![r] = ChatFailed([run[r] EXCEPT !.llm_failed = @ + 1])]
                /\ UNCHANGED chat_analysis
             \/ \E llm_response \in LLMAnswers, db_ok \in BOOLEAN :
                  LET row == AnalysisRow(chat_analysis, c, chat,
                                         ChatDate(chat, run[r].target_date),
                                         ParseTimeEstimates(llm_response))
                  IN IF db_ok /\ InsertAccepted(chat_analysis, row)
                     THEN /\ chat_analysis' = chat_analysis \cup {row}
                          /\ run' = [run EXCEPT ![r] = ChatProcessed(run[r], ResultOf(row))]
                     ELSE \* _store_analysis_results raises, _analyze_chat returns None
                          /\ run' = [run EXCEPT ![r] = ChatFailed([run[r] EXCEPT !.store_failed = @ + 1])]
                          /\ UNCHANGED chat_analysis
  /\ UNCHANGED <<call, analytics_cache, chatStore, daily_aggregates, processing_log, folded>>

\* faulty variant of UpdateDailyAggregates: no early return for an empty
\* results list; the pass raises on it
UpdateDailyAggregatesNoEarlyReturn(r) ==
  /\ run[r].pc = "aggregate"
  /\ LET results == run[r].results
     IN \E faultAt \in (IF results = <<>> THEN {1} ELSE 0..(NumDates(results) + 1)) :
          /\ daily_aggregates' = CommittedAggregates(daily_aggregates, results, faultAt)
          /\ IF faultAt = 0
             THEN /\ folded' = FoldInto(folded, results)
                  /\ run' = [run EXCEPT ![r].pc = "complete"]
             ELSE /\ folded' = folded
                  /\ run' = [run EXCEPT ![r].pc = "handler", ![r].error = "aggregate_error"]
  /\ UNCHANGED <<call, analytics_cache, chatStore, chat_analysis, processing_log>>

\* line 147: _update_daily_aggregates(target_date, results)
UpdateDailyAggregates(r) ==
  /\ run[r].pc = "aggregate"
  /\ LET results == run[r].results
     IN IF results = <<>>
        THEN /\ run' = [run EXCEPT ![r].pc = "complete"]
             /\ UNCHANGED <<daily_aggregates, folded>>
        ELSE \E faultAt \in 0..(NumDates(results) + 1) :
               /\ daily_aggregates' = CommittedAggregates(daily_aggregates, results, faultAt)
               /\ IF faultAt = 0
                  THEN /\ folded' = FoldInto(folded, results)
                       /\ run' = [run EXCEPT ![r].pc = "complete"]
                  ELSE /\ folded' = folded
                       /\ run' = [run EXCEPT ![r].pc = "handler", ![r].error = "aggregate_error"]
  /\ UNCHANGED <<call, analytics_cache, chatStore, chat_analysis, processing_log>>

\* lines 105-108 and 152-159: _complete_processing_log(status="completed")
CompleteLog(r) ==
  /\ run[r].pc = "complete"
  /\ \E ok \in BOOLEAN :
       IF ok
       THEN /\ processing_log' = [processing_log EXCEPT ![r] =
                 CompletedLogRow(@, "completed", run[r].processed_count, run[r].failed_count,
                                 run[r].total_llm_requests, "")]
            /\ LET result == [status |-> "completed",
                               chats_processed |-> run[r].processed_count,
                               chats_failed |-> run[r].failed_count]
               IN run' = [run EXCEPT ![r] =
                            IF run[r].chats = <<>> THEN Finished("returned", result, "", "")
                            ELSE [run[r] EXCEPT !.result = result, !.pc = "invalidate"]]
       ELSE /\ processing_log' = processing_log
            /\ run' = [run EXCEPT ![r].pc = "handler", ![r].error = "complete_log_error"]
  /\ UNCHANGED <<call, analytics_cache, chatStore, chat_analysis, daily_aggregates, folded>>

\* faulty variant of AfterInvalidation: the invalidation is not wrapped in its own
\* try/except, so its exception reaches the except block of the run
InvalidationErrorEscapes(rec, ok) ==
  IF ok THEN Finished("returned", rec.result, "", "")
  ELSE [rec EXCEPT !.pc = "handler", !.error = "cache_error"]

\* lines 177-215: the cache invalidation runs inside its own try/except;
\* ok or not, its outcome is only logged and processing_result returned
AfterInvalidation(rec, ok) == Finished("returned", rec.result, "", "")

InvalidateCache(r) ==
  /\ run[r].pc = "invalidate"
  /\ \E ok \in BOOLEAN :
       /\ run' = [run EXCEPT ![r] = AfterInvalidation(run[r], ok)]
       /\ analytics_cache' = IF ok THEN InvalidateAfterProcessing(analytics_cache)
                                    ELSE analytics_cache
  /\ UNCHANGED <<call, chatStore, chat_analysis, daily_aggregates, processing_log, folded>>

\* lines 217-224: the except block: _complete_processing_log(status=
\* "failed", error_message=str(e)), then raise; if that call raises as
\* well, its exception leaves process_chats_for_date instead
HandleFailure(r) ==
  /\ run[r].pc = "handler"
  /\ \E ok \in BOOLEAN :
       IF ok
       THEN /\ processing_log' = [processing_log EXCEPT ![r] =
                 CompletedLogRow(@, "failed", 0, 0, 0, run[r].error)]
            /\ run' = [run EXCEPT ![r] = Finished("raised", NoResult, run[r].error, run[r].error)]
       ELSE /\ processing_log' = processing_log
            /\ run' = [run EXCEPT ![r] = Finished("raised", NoResult, run[r].error, "complete_log_error")]
  /\ UNCHANGED <<call, analytics_cache, chatStore, chat_analysis, daily_aggregates, folded>>

Next ==
  \E r \in RunIds :
    \/ StartRun(r)
    \/ FetchChats(r)
    \/ AnalyzeChat(r)
    \/ UpdateDailyAggregates(r)
    \/ CompleteLog(r)
    \/ InvalidateCache(r)
    \/ HandleFailure(r)

Spec == Init /\ [][Next]_vars

\* ---------------------------------------------- calls of the pure functions
\* the tables and runs of a specification that examines a pure function
NoPipeline ==
  /\ chatStore = <<>>
  /\ chat_analysis = {}
  /\ daily_aggregates = {}
  /\ processing_log = [r \in RunIds |-> AbsentLog]
  /\ run = [r \in RunIds |-> IdleRun]
  /\ folded = [k \in AggKeys |-> [conf |-> 0, chats |-> 0, messages |-> 0, saved |-> 0,
                                active |-> 0, manual |-> 0, passes |-> 0]]
  /\ analytics_cache = {}

\* message and chat timestamps, in seconds after some instant
TimeValues == {0, 10, 50, 60, 300, 480, 600, 660, 1500}
ChatTimes == {0, 600}

\* a message with or without the key 'timestamp'
TimedMessages == {[role |-> "user"]} \cup {[role |-> "user", timestamp |-> t] : t \in TimeValues}

MessageLists == UNION {[1..n -> TimedMessages] : n \in 0..MaxMessages}

MetricsInit ==
  /\ NoPipeline
  /\ \E messages \in MessageLists, created_at \in ChatTimes, updated_at \in ChatTimes :
       call = [fn |-> "_calculate_time_metrics", messages |-> messages,
               conv_data |-> [created_at |-> created_at, updated_at |-> updated_at],
               returned |-> FALSE]

\* _calculate_time_metrics(messages, conv_data) returns
ReturnTimeMetrics ==
  /\ call.fn = "_calculate_time_metrics" /\ ~call.returned
  /\ call' = [fn |-> call.fn, messages |-> call.messages, conv_data |-> call.conv_data,
              returned |-> TRUE,
              value |-> CalculateTimeMetrics(call.messages, call.conv_data)]
  /\ UNCHANGED <<chatStore, chat_analysis, daily_aggregates, processing_log, run, folded, analytics_cache>>

MetricsNext == ReturnTimeMetrics

MetricsSpec == MetricsInit /\ [][MetricsNext]_vars

\* ------------------------------------------------- the cached read queries
\* the clock of the cache, time.time(), counted in finished batch runs
Now == Cardinality({r \in RunIds : run[r].pc \in {"returned", "raised"}})

\* the calls the read endpoints of routers/analytics.py make when the
\* request names no date range and keeps the default page: the dates are
\* passed positionally as None
RouterCalls ==
  { [func |-> "get_summary_data", args |-> <<Analytics, "null", "null">>],
    [func |-> "get_trends_data", args |-> <<Analytics, "null", "null">>],
    [func |-> "get_user_breakdown_data", args |-> <<Analytics, "10", "null", "null">>],
    [func |-> "get_chats_data", args |-> <<Analytics, "20", "0", "false", "null", "null">>],
    [func |-> "get_health_status_data", args |-> <<Analytics>>] }

\* faulty variant of HealthStatusData: the first row of the table is taken
\* instead of the row started last
HealthStatusOfFirstLog ==
  LET started == {r \in RunIds : processing_log[r].status # "absent"}
  IN IF started = {} THEN [status |-> "no_data", last_processing_run |-> "None"]
     ELSE LET first_log == processing_log[CHOOSE r \in started : \A o \in started : r <= o]
          IN [status |-> IF first_log.status = "completed" THEN "healthy" ELSE "warning",
              last_processing_run |-> IF first_log.writes > 0 THEN "completed_at" ELSE "None"]

\* get_health_status_data, lines 763-792: the row with the greatest
\* started_at (runs start in the order of their ids); completed_at is set
\* by _complete_processing_log, so it is null until the row is written
HealthStatusData ==
  LET started == {r \in RunIds : processing_log[r].status # "absent"}
  IN IF started = {} THEN [status |-> "no_data", last_processing_run |-> "None"]
     ELSE LET latest_log == processing_log[CHOOSE r \in started : \A o \in started : o <= r]
          IN [status |-> IF latest_log.status = "completed" THEN "healthy" ELSE "warning",
              last_processing_run |-> IF latest_log.writes > 0 THEN "completed_at" ELSE "None"]

\* what the decorated function reads from the database (the columns that
\* tell two database states apart)
QueryResult(func) ==
  CASE func = "get_summary_data" -> [total_chats |-> Cardinality(chat_analysis)]
    [] func = "get_trends_data" ->
         [trend_data |-> {<<row.analysis_date, row.chat_count>> :
                            row \in {a \in daily_aggregates : a.user_id = NULL}}]
    [] func = "get_user_breakdown_data" ->
         [users |-> {<<row.user_id, row.chat_count>> :
                       row \in {a \in daily_aggregates : a.user_id # NULL}}]
    [] func = "get_chats_data" -> [chats |-> {row.chat_id : row \in chat_analysis}]
    [] func = "get_health_status_data" -> HealthStatusData

CacheInit == Init /\ Len(chatStore) <= CacheChats

\* cached.wrapper, lines 247-277, called by a read endpoint: a key that
\* is present and has not expired returns the cached value; otherwise the
\* function is executed and its result stored
CachedQuery(q) ==
  /\ EventLoopFree
  /\ LET cache_key == CacheKeyGenerator(q.func, q.args)
         entries == {e \in analytics_cache : e.key = cache_key}
     IN \E is_expired \in BOOLEAN :
          IF entries # {} /\ ~is_expired
          THEN /\ call' = [fn |-> q.func, args |-> q.args, returned |-> TRUE, hit |-> TRUE,
                           value |-> (CHOOSE e \in entries : TRUE).value,
                           created_at |-> (CHOOSE e \in entries : TRUE).created_at]
               /\ UNCHANGED analytics_cache
          ELSE /\ analytics_cache' = CacheSet(analytics_cache, cache_key, QueryResult(q.func), Now)
               /\ call' = [fn |-> q.func, args |-> q.args, returned |-> TRUE, hit |-> FALSE,
                           value |-> QueryResult(q.func), created_at |-> Now]
  /\ UNCHANGED <<chatStore, chat_analysis, daily_aggregates, processing_log, run, folded>>

\* trigger_analytics_processing, lines 463-499: after a run that did not
\* return 'failed' the endpoint deletes its keys as well
TriggerInvalidation(r) ==
  /\ run[r].pc = "returned"
  /\ run[r].result.status # "failed"
  /\ analytics_cache' = CacheDelete(analytics_cache, RouterInvalidatedKeys)
  /\ UNCHANGED <<call, chatStore, chat_analysis, daily_aggregates, processing_log, run, folded>>

CacheNext ==
  \/ \E r \in 1..CacheRuns :
       \/ StartRun(r)
       \/ FetchChats(r)
       \/ AnalyzeChat(r)
       \/ UpdateDailyAggregates(r)
       \/ CompleteLog(r)
       \/ InvalidateCache(r)
       \/ HandleFailure(r)
  \/ \E q \in RouterCalls : CachedQuery(q)
  \/ \E r \in RunIds : TriggerInvalidation(r)

CacheSpec == CacheInit /\ [][CacheNext]_vars

\* the health endpoint, every batch run, and the invalidation of the
\* trigger endpoint
HealthCall == [func |-> "get_health_status_data", args |-> <<Analytics>>]

HealthNext ==
  \/ Next
  \/ CachedQuery(HealthCall)
  \/ \E r \in RunIds : TriggerInvalidation(r)

HealthSpec == CacheInit /\ [][HealthNext]_vars

\* ------------------------------------------------- two worker processes
\* Two server processes (uvicorn workers, or two instances of the backend)
\* share the Cogniforce database.  Each has an event loop of its own, so a
\* run of one is in progress while a run of the other is; the steps of the
\* two interleave at the statements they send to the database.

\* the rows a session adds: their primary key is in no row it loaded
SessionInserts(seen, session) == {row \in session : \A old \in seen : old.id # row.id}

\* the loaded rows a session has changed
SessionUpdates(seen, session) == {row \in session \ seen : \E old \in seen : old.id = row.id}

\* unique_daily_aggregate, UNIQUE (analysis_date, user_id): two rows whose
\* user_id is NULL never conflict, NULLs being distinct to the constraint
UniqueDailyAggregate(table, row) ==
  row.user_id = NULL \/ FindAggregates(table, row.analysis_date, row.user_id) = {}

\* the flush of db.commit() is accepted by the table
FlushAccepted(table, seen, session) ==
  \A row \in SessionInserts(seen, session) : UniqueDailyAggregate(table, row)

\* The table after the flush: every changed row is written by primary key
\* with the values the session computed from what it had loaded (UPDATE
\* ... SET chat_count = <value> WHERE id = <id>), every added row is
\* inserted under its own uuid4 (here: the next free number).
FlushedAggregates(table, seen, session) ==
  LET updates == SessionUpdates(seen, session)
      shift == Cardinality(table) - Cardinality(seen)
  IN {row \in table : \A u \in updates : u.id # row.id}
     \cup updates
     \cup {[row EXCEPT !.id = @ + shift] : row \in SessionInserts(seen, session)}

WorkersInit == Init /\ Len(chatStore) <= WorkerChats

\* process_chats_for_date, lines 77-80, in either worker: no other run is
\* waited for
WorkerStart(r) ==
  /\ run[r].pc = "idle"
  /\ \A o \in RunIds : o < r => run[o].pc # "idle"
  /\ \E target_date \in Dates, ok \in BOOLEAN :
       IF ok
       THEN /\ processing_log' = [processing_log EXCEPT ![r] =
                 [AbsentLog EXCEPT !.status = "running"]]
            /\ run' = [run EXCEPT ![r] = [IdleRun EXCEPT !.pc = "fetch", !.target_date = target_date]]
       ELSE /\ processing_log' = processing_log
            /\ run' = [run EXCEPT ![r] = Finished("raised", NoResult, "", "create_log_error")]
  /\ UNCHANGED <<call, analytics_cache, chatStore, chat_analysis, daily_aggregates, folded>>

\* _update_daily_aggregates up to db.commit(): the session (autoflush=False)
\* loads the rows of the dates and users of the results; nothing is sent
\* to the database yet
WorkerReadAggregates(r) ==
  /\ run[r].pc = "aggregate"
  /\ IF run[r].results = <<>>
     THEN run' = [run EXCEPT ![r].pc = "complete"]
     ELSE \E ok \in BOOLEAN :
            IF ok
            THEN run' = [run EXCEPT ![r].seen = daily_aggregates, ![r].pc = "commit"]
            ELSE run' = [run EXCEPT ![r].pc = "handler", ![r].error = "aggregate_error"]
  /\ UNCHANGED <<call, analytics_cache, chatStore, chat_analysis, daily_aggregates,
                 processing_log, folded>>

\* line 1030: db.commit() of the pass
WorkerCommitAggregates(r) ==
  /\ run[r].pc = "commit"
  /\ LET results == run[r].results
         session == SessionAfter(run[r].seen, results, NumDates(results))
     IN \E ok \in BOOLEAN :
          IF ok /\ FlushAccepted(daily_aggregates, run[r].seen, session)
          THEN /\ daily_aggregates' = FlushedAggregates(daily_aggregates, run[r].seen, session)
               /\ folded' = FoldInto(folded, results)
               /\ run' = [run EXCEPT ![r].seen = {}, ![r].pc = "complete"]
          ELSE /\ UNCHANGED <<daily_aggregates, folded>>
               /\ run' = [run EXCEPT ![r].seen = {}, ![r].pc = "handler",
                                     ![r].error = "aggregate_error"]
  /\ UNCHANGED <<call, analytics_cache, chatStore, chat_analysis, processing_log>>

WorkersNext ==
  \E r \in RunIds :
    \/ WorkerStart(r)
    \/ FetchChats(r)
    \/ AnalyzeChat(r)
    \/ WorkerReadAggregates(r)
    \/ WorkerCommitAggregates(r)
    \/ CompleteLog(r)
    \/ InvalidateCache(r)
    \/ HandleFailure(r)

WorkersSpec == WorkersInit /\ [][WorkersNext]_vars

\* -------------------------------------------------- the scheduled daily job
\* the attributes of an AnalyticsProcessor instance that are callable
\* (analytics_processor.py defines no __getattr__)
ProcessorAttributes ==
  {"process_chats_for_date", "_fetch_chats_for_date", "_analyze_chat",
   "_calculate_time_metrics", "_calculate_active_duration", "_create_smart_summary",
   "_apply_smart_redaction", "_estimate_manual_time", "_estimate_manual_time_http",
   "_parse_time_estimates", "_store_analysis_results", "_create_processing_log",
   "_complete_processing_log", "_update_daily_aggregates"}

\* the number of firings of the daily job so far
JobFirings(c) == IF c.fn = "_daily_processing_job" THEN c.fired ELSE 0

SchedulerInit == Init /\ Len(chatStore) <= SchedulerChats

\* AnalyticsScheduler._daily_processing_job, lines 156-179.  The
\* AsyncIOScheduler runs the job on the event loop of the process.  The
\* job evaluates self.processor.process_conversations_for_date(yesterday):
\* when the processor has the attribute the call starts a run for
\* yesterday; otherwise the lookup raises AttributeError, which the except
\* block of lines 177-179 logs and does not re-raise.
DailyProcessingJob ==
  /\ EventLoopFree
  /\ JobFirings(call) < MaxFirings
  /\ \E today \in {d + 1 : d \in Dates} :
       LET yesterday == today - 1
           job == [fn |-> "_daily_processing_job", yesterday |-> yesterday,
                   fired |-> JobFirings(call) + 1, logged |-> "", raised |-> ""]
       IN IF "process_conversations_for_date" \in ProcessorAttributes
          THEN \E r \in RunIds :
                 /\ run[r].pc = "idle"
                 /\ \A o \in RunIds : o < r => run[o].pc # "idle"
                 /\ processing_log' = [processing_log EXCEPT ![r] =
                      [AbsentLog EXCEPT !.status = "running"]]
                 /\ run' = [run EXCEPT ![r] =
                      [IdleRun EXCEPT !.pc = "fetch", !.target_date = yesterday]]
                 /\ call' = job
          ELSE /\ call' = [job EXCEPT !.logged = "AttributeError"]
               /\ UNCHANGED <<processing_log, run>>
  /\ UNCHANGED <<analytics_cache, chatStore, chat_analysis, daily_aggregates, folded>>

SchedulerNext == Next \/ DailyProcessingJob

SchedulerSpec == SchedulerInit /\ [][SchedulerNext]_vars

\* ---------------------------------------------- AnalyticsCache as an object
\* An AnalyticsCache(max_size = LruMaxSize, default_ttl = DefaultTtl) used
\* by several threads.  self._cache, an OrderedDict, is the sequence of its
\* entries from the oldest position to the newest; a key is a sequence of
\* characters; time.time() is the whole number now.  Every method holds
\* self._lock (an RLock) from its first statement that touches self._cache
\* to its return, so the body of a method is one step; set evaluates
\* ttl = ttl or self.default_ttl before it takes the lock.
None == "None"
Threads == {1, 2}
LruKeys == {<<"a">>, <<"a", "b">>, <<"c">>}
LruValues == {"v1", "v2"}
LruPatterns == {<<"a">>, <<"b">>}
\* the ttl argument of set: <<>> for None (the default), or <<seconds>>
TtlArgs == {<<>>, <<0>>, <<1>>}

\* a thread that is in no call of set
NotInSet == [op |-> "none"]

\* pattern in key, for two strings
Contains(pattern, key) ==
  \E i \in 0..(Len(key) - Len(pattern)) :
    \A j \in 1..Len(pattern) : key[i + j] = pattern[j]

KeysOf(od) == {od[i].key : i \in DOMAIN od}
IndexOf(od, key) == CHOOSE i \in DOMAIN od : od[i].key = key

\* [e for e in od if keep(e)], order kept, by the set of positions kept
RECURSIVE KeepPositions(_, _)
KeepPositions(od, keep) ==
  IF od = <<>> THEN <<>>
  ELSE LET rest == KeepPositions(Tail(od), {i - 1 : i \in keep \ {1}})
       IN IF 1 \in keep THEN <<Head(od)>> \o rest ELSE rest

\* del self._cache[key] for every key of keys
DeleteKeys(od, keys) == KeepPositions(od, {i \in DOMAIN od : od[i].key \notin keys})

\* CacheEntry.is_expired
IsExpired(entry, now) == now > entry.created_at + entry.ttl_seconds

\* faulty variant of LruGet: the expiry of the entry is not examined
LruGetIgnoresExpiry(od, key, now) ==
  IF key \notin KeysOf(od) THEN [cache |-> od, returned |-> None]
  ELSE [cache |-> DeleteKeys(od, {key}) \o <<od[IndexOf(od, key)]>>,
        returned |-> od[IndexOf(od, key)].value]

\* AnalyticsCache.get: the cache afterwards and the value returned
LruGet(od, key, now) ==
  IF key \notin KeysOf(od) THEN [cache |-> od, returned |-> None]
  ELSE LET entry == od[IndexOf(od, key)]
       IN IF IsExpired(entry, now)
          THEN [cache |-> DeleteKeys(od, {key}), returned |-> None]
          ELSE \* move_to_end(key)
               [cache |-> DeleteKeys(od, {key}) \o <<entry>>, returned |-> entry.value]

\* lines 132-135: while len(self._cache) >= self.max_size: popitem(last=False)
RECURSIVE EvictOldest(_, _)
EvictOldest(od, max_size) ==
  IF Len(od) >= max_size THEN EvictOldest(Tail(od), max_size) ELSE od

\* ttl = ttl or self.default_ttl: None and 0 are both false
TtlOrDefault(ttl, default_ttl) == IF ttl = <<>> \/ ttl[1] = 0 THEN default_ttl ELSE ttl[1]

\* AnalyticsCache.set under the lock.  self._cache[key] = entry replaces
\* the value of a key the OrderedDict holds at the position it has, and
\* puts a new key at the end.
LruSet(od, max_size, key, value, ttl, now) ==
  LET room == EvictOldest(od, max_size)
      entry == [key |-> key, value |-> value, created_at |-> now, ttl_seconds |-> ttl]
  IN IF key \in KeysOf(room)
     THEN [room EXCEPT ![IndexOf(room, key)] = entry]
     ELSE Append(room, entry)

\* AnalyticsCache.delete
LruDelete(od, key) == DeleteKeys(od, {key})

\* AnalyticsCache.invalidate_pattern: the keys deleted
PatternKeys(od, pattern) == {k \in KeysOf(od) : Contains(pattern, k)}

\* AnalyticsCache.cleanup_expired: the keys deleted
ExpiredKeys(od, now) == {od[i].key : i \in {j \in DOMAIN od : IsExpired(od[j], now)}}

\* the keys of used that the cache holds, with key put last when it is held
RECURSIVE UsedNow(_, _, _)
UsedNow(used, od, key) ==
  IF used = <<>> THEN (IF key \in KeysOf(od) THEN <<key>> ELSE <<>>)
  ELSE IF Head(used) = key \/ Head(used) \notin KeysOf(od) THEN UsedNow(Tail(used), od, key)
       ELSE <<Head(used)>> \o UsedNow(Tail(used), od, key)

\* the cache object, the clock, the set call each thread is in, and the
\* last method call that returned; used is history: the keys the cache
\* holds in the order of their last use (a get that returned the value, a
\* set), the least recently used first
LruObject(od, now, pending, last) ==
  [fn |-> "AnalyticsCache", cache |-> od, now |-> now, pending |-> pending, last |-> last,
   used |-> <<>>]

LruInit ==
  /\ NoPipeline
  /\ call = LruObject(<<>>, 0, [t \in Threads |-> NotInSet], [op |-> "__init__"])

IsLru == call.fn = "AnalyticsCache"

\* a thread calls set(key, value, ttl): lines 126-128, before the lock
SetEnter(t) ==
  /\ IsLru /\ call.pending[t] = NotInSet
  /\ \E key \in LruKeys, value \in LruValues, ttl \in TtlArgs :
       call' = [call EXCEPT !.pending[t] =
                  [op |-> "set", key |-> key, value |-> value,
                   ttl |-> TtlOrDefault(ttl, DefaultTtl)]]
  /\ UNCHANGED <<analytics_cache, chatStore, chat_analysis, daily_aggregates,
                 processing_log, run, folded>>

\* lines 130-153: the thread holds the lock and returns
SetLocked(t) ==
  /\ IsLru /\ call.pending[t] # NotInSet
  /\ LET req == call.pending[t]
     IN call' = [call EXCEPT
                   !.cache = LruSet(call.cache, LruMaxSize, req.key, req.value, req.ttl, call.now),
                   !.pending[t] = NotInSet,
                   !.last = [op |-> "set", key |-> req.key, value |-> req.value],
                   !.used = UsedNow(call.used,
                                    LruSet(call.cache, LruMaxSize, req.key, req.value, req.ttl, call.now),
                                    req.key)]
  /\ UNCHANGED <<analytics_cache, chatStore, chat_analysis, daily_aggregates,
                 processing_log, run, folded>>

GetCall(t) ==
  /\ IsLru /\ call.pending[t] = NotInSet
  /\ \E key \in LruKeys :
       LET got == LruGet(call.cache, key, call.now)
       IN call' = [call EXCEPT !.cache = got.cache,
                               !.last = [op |-> "get", key |-> key, returned |-> got.returned],
                               !.used = UsedNow(call.used, got.cache, key)]
  /\ UNCHANGED <<analytics_cache, chatStore, chat_analysis, daily_aggregates,
                 processing_log, run, folded>>

DeleteCall(t) ==
  /\ IsLru /\ call.pending[t] = NotInSet
  /\ \E key \in LruKeys :
       call' = [call EXCEPT !.cache = LruDelete(call.cache, key),
                            !.last = [op |-> "delete", key |-> key,
                                      returned |-> key \in KeysOf(call.cache)],
                            !.used = UsedNow(call.used, LruDelete(call.cache, key), key)]
  /\ UNCHANGED <<analytics_cache, chatStore, chat_analysis, daily_aggregates,
                 processing_log, run, folded>>

ClearCall(t) ==
  /\ IsLru /\ call.pending[t] = NotInSet
  /\ call' = [call EXCEPT !.cache = <<>>, !.last = [op |-> "clear"], !.used = <<>>]
  /\ UNCHANGED <<analytics_cache, chatStore, chat_analysis, daily_aggregates,
                 processing_log, run, folded>>

InvalidatePatternCall(t) ==
  /\ IsLru /\ call.pending[t] = NotInSet
  /\ \E pattern \in LruPatterns :
       LET keys == PatternKeys(call.cache, pattern)
       IN call' = [call EXCEPT !.cache = DeleteKeys(call.cache, keys),
                               !.last = [op |-> "invalidate_pattern",
                                         returned |-> Cardinality(keys)],
                               !.used = UsedNow(call.used, DeleteKeys(call.cache, keys), <<>>)]
  /\ UNCHANGED <<analytics_cache, chatStore, chat_analysis, daily_aggregates,
                 processing_log, run, folded>>

CleanupExpiredCall(t) ==
  /\ IsLru /\ call.pending[t] = NotInSet
  /\ LET keys == ExpiredKeys(call.cache, call.now)
     IN call' = [call EXCEPT !.cache = DeleteKeys(call.cache, keys),
                             !.last = [op |-> "cleanup_expired",
                                       returned |-> Cardinality(keys)],
                             !.used = UsedNow(call.used, DeleteKeys(call.cache, keys), <<>>)]
  /\ UNCHANGED <<analytics_cache, chatStore, chat_analysis, daily_aggregates,
                 processing_log, run, folded>>

\* time passes
Tick ==
  /\ IsLru /\ call.now < MaxTime
  /\ call' = [call EXCEPT !.now = @ + 1]
  /\ UNCHANGED <<analytics_cache, chatStore, chat_analysis, daily_aggregates,
                 processing_log, run, folded>>

LruNext ==
  \/ Tick
  \/ \E t \in Threads :
       \/ SetEnter(t)
       \/ SetLocked(t)
       \/ GetCall(t)
       \/ DeleteCall(t)
       \/ ClearCall(t)
       \/ InvalidatePatternCall(t)
       \/ CleanupExpiredCall(t)

LruSpec == LruInit /\ [][LruNext]_vars

\* ------------------------------------------- invalidation by data change
\* the literals of patterns_to_invalidate, lines 315-320, as strings of
\* characters
PatSummary ==
  <<"a", "n", "a", "l", "y", "t", "i", "c", "s", ":", "g", "e", "t",
   "_", "s", "u", "m", "m", "a", "r", "y", "_", "d", "a", "t", "a">>
PatDailyTrend ==
  <<"a", "n", "a", "l", "y", "t", "i", "c", "s", ":", "g", "e", "t",
   "_", "d", "a", "i", "l", "y", "_", "t", "r", "e", "n", "d">>
PatUserBreakdown ==
  <<"a", "n", "a", "l", "y", "t", "i", "c", "s", ":", "g", "e", "t",
   "_", "u", "s", "e", "r", "_", "b", "r", "e", "a", "k", "d", "o",
   "w", "n">>
PatConversations ==
  <<"a", "n", "a", "l", "y", "t", "i", "c", "s", ":", "g", "e", "t",
   "_", "c", "o", "n", "v", "e", "r", "s", "a", "t", "i", "o", "n",
   "s">>
PatHealth ==
  <<"a", "n", "a", "l", "y", "t", "i", "c", "s", ":", "g", "e", "t",
   "_", "h", "e", "a", "l", "t", "h", "_", "s", "t", "a", "t", "u",
   "s">>

\* patterns_to_invalidate.get(operation_type), <<>> for an unknown type
PatternsToInvalidate(operation_type) ==
  CASE operation_type = "conversation_analysis_updated" -> <<PatSummary, PatDailyTrend>>
    [] operation_type = "daily_aggregates_updated" ->
         <<PatSummary, PatDailyTrend, PatUserBreakdown>>
    [] operation_type = "user_data_updated" -> <<PatUserBreakdown, PatConversations>>
    [] operation_type = "processing_run_completed" -> <<PatHealth>>
    [] OTHER -> <<>>

OperationTypes ==
  {"conversation_analysis_updated", "daily_aggregates_updated", "user_data_updated",
   "processing_run_completed", "chat_deleted"}

Salts == 0..MaxSalt

\* the characters of a hexdigest
HexDigits == <<"0", "1", "2", "3", "4", "5", "6", "7", "8", "9", "a", "b", "c", "d", "e", "f">>

\* the position of a cached function among the cached functions
FuncNumber(func) ==
  CASE func = "get_summary_data" -> 1
    [] func = "get_trends_data" -> 2
    [] func = "get_user_breakdown_data" -> 3
    [] func = "get_chats_data" -> 4
    [] func = "get_health_status_data" -> 5

\* hashlib.md5(combined.encode()).hexdigest(), line 73: 32 characters of
\* HexDigits that depend on the text hashed.  The model does not compute
\* MD5: the digest of the key text of a call is a string of 32 hex digits
\* fixed by the call and by salt, which stands for what the model does not
\* know of the function; digests of different calls differ.
Md5HexDigest(q, salt) ==
  [i \in 1..32 |-> HexDigits[((i * (FuncNumber(q.func) + salt) + 3 * FuncNumber(q.func)) % 16) + 1]]

\* the loop of lines 323-325 over the patterns from position n on: the
\* cache afterwards and the sum of the counts invalidate_pattern returned
RECURSIVE InvalidateFrom(_, _, _, _)
InvalidateFrom(od, patterns, n, total_invalidated) ==
  IF n > Len(patterns) THEN [cache |-> od, returned |-> total_invalidated]
  ELSE LET keys == PatternKeys(od, patterns[n])
       IN InvalidateFrom(DeleteKeys(od, keys), patterns, n + 1,
                         total_invalidated + Cardinality(keys))

InvalidationInit ==
  /\ NoPipeline
  /\ \E salt \in Salts :
       call = [fn |-> "data_change_invalidation", cache |-> <<>>, salt |-> salt,
               last |-> [op |-> "none"]]

IsInvalidation == call.fn = "data_change_invalidation"

\* the wrapper of @cached, lines 247-264, around a call of the router: a
\* hit returns the entry, a miss stores the result of the function (here:
\* its name) under the digest
CachedWrapper(q) ==
  /\ IsInvalidation
  /\ LET cache_key == Md5HexDigest(q, call.salt)
         got == LruGet(call.cache, cache_key, 0)
     IN call' = [call EXCEPT
                   !.cache = IF got.returned # None THEN got.cache
                             ELSE LruSet(got.cache, AnalyticsMaxSize, cache_key, q.func,
                                         AnalyticsTtl, 0),
                   !.last = [op |-> "cached", func |-> q.func]]
  /\ UNCHANGED <<analytics_cache, chatStore, chat_analysis, daily_aggregates,
                 processing_log, run, folded>>

\* CacheInvalidationStrategy.data_change_invalidation, lines 312-330
DataChangeInvalidation(operation_type) ==
  /\ IsInvalidation
  /\ LET done == InvalidateFrom(call.cache, PatternsToInvalidate(operation_type), 1, 0)
     IN call' = [call EXCEPT
                   !.cache = done.cache,
                   !.last = [op |-> "data_change_invalidation",
                             operation_type |-> operation_type,
                             returned |-> done.returned]]
  /\ UNCHANGED <<analytics_cache, chatStore, chat_analysis, daily_aggregates,
                 processing_log, run, folded>>

InvalidationNext ==
  \/ \E q \in RouterCalls : CachedWrapper(q)
  \/ \E operation_type \in OperationTypes : DataChangeInvalidation(operation_type)

InvalidationSpec == InvalidationInit /\ [][InvalidationNext]_vars

\* ---------------------------------------------------------- CircuitBreaker
\* A CircuitBreaker(failure_threshold = FailureThreshold, recovery_timeout
\* = RecoveryTimeout, expected_exception = Exception) shared by the callers
\* of protect().  A caller is inside the with block between the yield of
\* protect and the end of the block; the blocks of different callers (tasks
\* of the event loop, threads of the worker pool) overlap.  can_execute,
\* record_success and record_failure are each one step.  time.time() is
\* the whole number now, at least 1; last_failure_time None is 0 (both are
\* false at line 126).
Callers == {1, 2}

NewBreaker == [state |-> "closed", failure_count |-> 0, last_failure_time |-> 0]

\* CircuitBreaker.can_execute: the breaker afterwards and the value returned
CanExecute(b, now) ==
  CASE b.state = "closed" -> [breaker |-> b, returned |-> TRUE]
    [] b.state = "open" ->
         IF b.last_failure_time # 0 /\ now - b.last_failure_time >= RecoveryTimeout
         THEN [breaker |-> [b EXCEPT !.state = "half_open"], returned |-> TRUE]
         ELSE [breaker |-> b, returned |-> FALSE]
    [] b.state = "half_open" -> [breaker |-> b, returned |-> TRUE]

\* faulty variant of RecordSuccess: the failure count is kept
RecordSuccessKeepsCount(b) ==
  [b EXCEPT !.state = IF b.state = "half_open" THEN "closed" ELSE b.state]

\* CircuitBreaker.record_success
RecordSuccess(b) ==
  [b EXCEPT !.failure_count = 0,
            !.state = IF b.state = "half_open" THEN "closed" ELSE b.state]

\* CircuitBreaker.record_failure
RecordFailure(b, now) ==
  [b EXCEPT !.failure_count = @ + 1,
            !.last_failure_time = now,
            !.state = IF b.failure_count + 1 >= FailureThreshold THEN "open" ELSE b.state]

\* the breaker, the clock, the callers inside a with block, and the last
\* method of the breaker that returned; since and reset are history: the
\* failures recorded since the last recorded success, and whether a
\* success has been recorded after a failure
BreakerInit ==
  /\ NoPipeline
  /\ call = [fn |-> "CircuitBreaker", breaker |-> NewBreaker, now |-> 1,
             inside |-> {}, since |-> 0, reset |-> FALSE,
             last |-> [op |-> "__init__"]]

IsBreaker == call.fn = "CircuitBreaker"

\* protect, lines 159-163: can_execute, then the block is entered or
\* CircuitBreakerError raised
ProtectEnter(c) ==
  /\ IsBreaker /\ c \notin call.inside
  /\ LET can == CanExecute(call.breaker, call.now)
     IN call' = [call EXCEPT
                   !.breaker = can.breaker,
                   !.inside = IF can.returned THEN call.inside \cup {c} ELSE call.inside,
                   !.last = [op |-> "can_execute", caller |-> c, was |-> call.breaker.state,
                             returned |-> can.returned]]
  /\ UNCHANGED <<analytics_cache, chatStore, chat_analysis, daily_aggregates,
                 processing_log, run, folded>>

\* line 164: the block ended without an exception
ProtectSuccess(c) ==
  /\ IsBreaker /\ c \in call.inside
  /\ call' = [call EXCEPT
                !.breaker = RecordSuccess(call.breaker),
                !.inside = call.inside \ {c},
                !.since = 0,
                !.reset = call.reset \/ call.since > 0,
                !.last = [op |-> "record_success", caller |-> c, was |-> call.breaker.state]]
  /\ UNCHANGED <<analytics_cache, chatStore, chat_analysis, daily_aggregates,
                 processing_log, run, folded>>

\* lines 166-168: the block raised an Exception
ProtectFailure(c) ==
  /\ IsBreaker /\ c \in call.inside
  /\ call.breaker.failure_count < MaxFailures
  /\ call' = [call EXCEPT
                !.breaker = RecordFailure(call.breaker, call.now),
                !.inside = call.inside \ {c},
                !.since = @ + 1,
                !.last = [op |-> "record_failure", caller |-> c, was |-> call.breaker.state]]
  /\ UNCHANGED <<analytics_cache, chatStore, chat_analysis, daily_aggregates,
                 processing_log, run, folded>>

\* time passes
BreakerTick ==
  /\ IsBreaker /\ call.now < MaxClock
  /\ call' = [call EXCEPT !.now = @ + 1]
  /\ UNCHANGED <<analytics_cache, chatStore, chat_analysis, daily_aggregates,
                 processing_log, run, folded>>

BreakerNext ==
  \/ BreakerTick
  \/ \E c \in Callers : ProtectEnter(c) \/ ProtectSuccess(c) \/ ProtectFailure(c)

BreakerSpec == BreakerInit /\ [][BreakerNext]_vars

\* -------------------------------------------- retry_with_exponential_backoff
\* The wrapper of retry_with_exponential_backoff(RetryConfig(max_attempts))
\* around a function whose every call returns, raises one of
\* config.retryable_exceptions, or raises another Exception.  The wrapper
\* of async_retry_with_exponential_backoff has the same statements with
\* await func(...) and await asyncio.sleep(delay).  exponential_base is
\* the default 2.0.
RetryAttempts == {1, 2, 3, LongRetry}
RetryVariants == {"retry_with_exponential_backoff", "async_retry_with_exponential_backoff"}
CallOutcomes == {"returns", "retryable", "other"}

\* config.exponential_base ** attempt, lines 202 and 274, raises
\* OverflowError: 2.0 ** attempt is no double from attempt = 1024 on
PowOverflows(attempt) == attempt >= DoubleMaxExponent

\* one pass of the loop body of lines 181-235 (254-305) in which the call
\* of func had the given outcome; calls and last_exception number the
\* calls of func
LoopPass(w, outcome) ==
  LET made == [w EXCEPT !.calls = @ + 1]
  IN CASE outcome = "returns" -> [made EXCEPT !.status = "returned"]
       [] outcome = "other" ->
            [made EXCEPT !.status = "raised",
                         !.raised = [type |-> "other", call |-> made.calls]]
       [] outcome = "retryable" ->
            IF w.attempt = w.max_attempts - 1
            THEN \* break, then raise last_exception
                 [made EXCEPT !.status = "raised", !.last_exception = made.calls,
                              !.raised = [type |-> "retryable", call |-> made.calls]]
            ELSE IF PowOverflows(w.attempt)
            THEN [made EXCEPT !.status = "raised", !.last_exception = made.calls,
                              !.raised = [type |-> "OverflowError", call |-> 0]]
            ELSE \* sleep(delay), next attempt
                 [made EXCEPT !.last_exception = made.calls, !.attempt = @ + 1]

RetryInit ==
  /\ NoPipeline
  /\ \E variant \in RetryVariants, max_attempts \in RetryAttempts :
       call = [fn |-> variant, max_attempts |-> max_attempts, attempt |-> 0, calls |-> 0,
               last_exception |-> 0, status |-> "running",
               raised |-> [type |-> "none", call |-> 0]]

IsRetry == call.fn \in RetryVariants

\* the wrapper calls func once more
CallFunc ==
  /\ IsRetry /\ call.status = "running" /\ call.attempt < call.max_attempts
  /\ \E outcome \in CallOutcomes : call' = LoopPass(call, outcome)
  /\ UNCHANGED <<analytics_cache, chatStore, chat_analysis, daily_aggregates,
                 processing_log, run, folded>>

RetryNext == CallFunc

\* every sleep ends and the function is called again
RetrySpec == RetryInit /\ [][RetryNext]_vars /\ WF_vars(CallFunc)

\* ---------------------------------------------- resilient_database_operation
\* A function wrapped by resilient_database_operation(operation_name): the
\* retry wrapper of lines 404-408 around the wrapper of lines 410-421,
\* which runs the function inside circuit_breaker.protect.  Every call of
\* the function returns or raises an exception with a type and a message.
ExceptionTypes == {"ConnectionError", "TimeoutError", "OSError", "ValueError"}
Messages ==
  {<<"C", "o", "n", "n", "e", "c", "t", "i", "o", "n">>,
   <<"c", "o", "n", "n", "e", "c", "t", "i", "o", "n">>,
   <<"t", "i", "m", "e", "d", " ", "o", "u", "t">>}
FuncReturns == [kind |-> "returns", type |-> "", msg |-> <<>>]
FuncOutcomes ==
  {FuncReturns} \cup
  {[kind |-> "raises", type |-> t, msg |-> m] : t \in ExceptionTypes, m \in Messages}

\* str.lower()
Lower(str) == [i \in DOMAIN str |-> IF str[i] = "C" THEN "c" ELSE str[i]]

\* isinstance(e, (ConnectionError, TimeoutError, OSError)), line 407;
\* AnalyticsError and its subclasses derive from Exception only
IsRetryable(type) == type \in {"ConnectionError", "TimeoutError", "OSError"}

\* lines 410-421: one call of the inner wrapper; ran says whether the
\* function was called, error is the type of the exception that leaves
\* the wrapper ("" when it returns)
InnerWrapper(b, now, o) ==
  LET can == CanExecute(b, now)
  IN IF ~can.returned
     THEN [breaker |-> can.breaker, ran |-> FALSE, error |-> "CircuitBreakerError"]
     ELSE IF o.kind = "returns"
     THEN [breaker |-> RecordSuccess(can.breaker), ran |-> TRUE, error |-> ""]
     ELSE [breaker |-> RecordFailure(can.breaker, now), ran |-> TRUE,
           error |-> IF Contains(<<"c", "o", "n", "n", "e", "c", "t", "i", "o", "n">>,
                                 Lower(o.msg))
                     THEN "DatabaseConnectionError" ELSE o.type]

\* what the retry wrapper sees of a call of the inner wrapper
RetryOutcome(error) ==
  IF error = "" THEN "returns" ELSE IF IsRetryable(error) THEN "retryable" ELSE "other"

ResilientInit ==
  /\ NoPipeline
  /\ call = [fn |-> "resilient_database_operation", breaker |-> NewBreaker, now |-> 1,
             max_attempts |-> ResilientAttempts, attempt |-> 0, calls |-> 0,
             last_exception |-> 0, status |-> "running",
             raised |-> [type |-> "none", call |-> 0], invocations |-> 1,
             last |-> [o |-> FuncReturns, ran |-> FALSE, error |-> ""]]

IsResilient == call.fn = "resilient_database_operation"

\* one pass of the retry loop: the inner wrapper is called once
ResilientAttempt ==
  /\ IsResilient /\ call.status = "running" /\ call.attempt < call.max_attempts
  /\ \E o \in FuncOutcomes :
       LET inner == InnerWrapper(call.breaker, call.now, o)
       IN call' = [LoopPass(call, RetryOutcome(inner.error)) EXCEPT
                     !.breaker = inner.breaker,
                     !.last = [o |-> IF inner.ran THEN o ELSE FuncReturns,
                               ran |-> inner.ran, error |-> inner.error]]
  /\ UNCHANGED <<analytics_cache, chatStore, chat_analysis, daily_aggregates,
                 processing_log, run, folded>>

\* the wrapped function is invoked again; the breaker of the operation is
\* the same object (lines 402, 391-396)
ResilientInvoke ==
  /\ IsResilient /\ call.status # "running" /\ call.invocations < MaxInvocations
  /\ call' = [call EXCEPT !.invocations = @ + 1, !.attempt = 0, !.calls = 0,
                          !.last_exception = 0, !.status = "running",
                          !.raised = [type |-> "none", call |-> 0]]
  /\ UNCHANGED <<analytics_cache, chatStore, chat_analysis, daily_aggregates,
                 processing_log, run, folded>>

\* time.time() advances, during a sleep of the retry loop or between
\* invocations
ResilientTick ==
  /\ IsResilient /\ call.now < MaxClock
  /\ call' = [call EXCEPT !.now = @ + 1]
  /\ UNCHANGED <<analytics_cache, chatStore, chat_analysis, daily_aggregates,
                 processing_log, run, folded>>

ResilientNext == ResilientAttempt \/ ResilientInvoke \/ ResilientTick

ResilientSpec == ResilientInit /\ [][ResilientNext]_vars

\* ------------------------------------------------- the redacted summary
\* A text is a sequence of tokens (the words of the string, in order).
\* a word, an email address, a 3-3-4 phone number
PlainTokens == {"hello"}
EmailTokens == {"a@b.com"}
PhoneTokens == {"555-123-4567"}
Tokens == PlainTokens \cup EmailTokens \cup PhoneTokens

\* _apply_smart_redaction, lines 518 and 521: re.sub of the email pattern,
\* then of the phone pattern (the URL and key patterns match none of Tokens)
RedactToken(token) ==
  IF token \in EmailTokens THEN "[EMAIL_REDACTED]"
  ELSE IF token \in PhoneTokens THEN "[PHONE_REDACTED]"
  ELSE token

ApplySmartRedaction(content) == [i \in DOMAIN content |-> RedactToken(content[i])]

\* the value of the key 'content' of a message: a string, None, or a list
\* of parts (kind "str", "none", "list"; text is empty unless kind = "str")
Contents ==
  {[kind |-> "str", text |-> <<t>>] : t \in Tokens}
  \cup {[kind |-> "none", text |-> <<>>], [kind |-> "list", text |-> <<>>]}

SummaryMessages == {[role |-> role, content |-> c] : role \in {"user", "assistant"}, c \in Contents}

SummaryMessageLists == UNION {[1..n -> SummaryMessages] : n \in 0..MaxMessages}

\* conv_data with or without the key 'title'
SummaryConvData == {[id |-> "c"]} \cup {[id |-> "c", title |-> <<t>>] : t \in Tokens}

\* [msg.get('content', '') for msg in messages if msg.get('role') == role]
ContentsOfRole(messages, role) ==
  SelectSeq(messages, LAMBDA msg : msg.role = role)

FirstN(seq, n) == SubSeq(seq, 1, IF Len(seq) < n THEN Len(seq) ELSE n)

\* "\n".join(contents): TypeError unless every item is a string
JoinRaises(msgs) == \E i \in DOMAIN msgs : msgs[i].content.kind # "str"

RECURSIVE Join(_)
Join(msgs) == IF msgs = <<>> THEN <<>> ELSE Head(msgs).content.text \o Join(Tail(msgs))

\* _create_smart_summary, lines 454-493: the returned f-string as a record
\* of its fields, or the exception it raises
CreateSmartSummary(conv_data, messages) ==
  LET title == IF "title" \in DOMAIN conv_data THEN conv_data.title ELSE <<"Untitled", "chat">>
      user_messages == ContentsOfRole(messages, "user")
      assistant_messages == ContentsOfRole(messages, "assistant")
  IN IF JoinRaises(FirstN(user_messages, 3)) \/ JoinRaises(FirstN(assistant_messages, 2))
     THEN [raised |-> "TypeError"]
     ELSE LET full_content == <<"Title:">> \o title
                                \o <<"User Messages:">> \o Join(FirstN(user_messages, 3))
                                \o <<"Assistant Messages:">> \o Join(FirstN(assistant_messages, 2))
          IN [raised |-> "",
              topic |-> title,
              message_count |-> Len(messages),
              user_messages |-> Len(user_messages),
              assistant_messages |-> Len(assistant_messages),
              content_overview |-> ApplySmartRedaction(full_content)]

SummaryInit ==
  /\ NoPipeline
  /\ \E conv_data \in SummaryConvData, messages \in SummaryMessageLists :
       /\ messages # <<>>
       /\ call = [fn |-> "_analyze_chat", pc |-> "summary",
                  conv_data |-> conv_data, messages |-> messages]

\* _analyze_chat, lines 303-306 and 370-372: the summary is built; the
\* analysis goes on to the LLM estimation, or the exception of
\* _create_smart_summary is caught and _analyze_chat returns None
BuildSummary ==
  /\ call.fn = "_analyze_chat" /\ call.pc = "summary"
  /\ LET chat_summary == CreateSmartSummary(call.conv_data, call.messages)
     IN call' = [fn |-> call.fn, conv_data |-> call.conv_data, messages |-> call.messages,
                 pc |-> IF chat_summary.raised = "" THEN "estimate" ELSE "return_none",
                 chat_summary |-> chat_summary]
  /\ UNCHANGED <<chatStore, chat_analysis, daily_aggregates, processing_log, run, folded, analytics_cache>>

SummaryNext == BuildSummary

SummarySpec == SummaryInit /\ [][SummaryNext]_vars

\* ------------------------------------------ the answer of the LLM as text
\* The text of an answer is a sequence of tokens: an opening brace, a
\* closing brace, "k" for members of a JSON object or the key of a nested
\* object ("low": 5, "detail": ...), "t" for any other text.
ResponseTokens == {"{", "}", "k", "t"}

ResponseTexts == UNION {[1..n -> ResponseTokens] : n \in 0..MaxResponseLen}

\* opening minus closing braces among the first i tokens
Depth(text, i) ==
  Cardinality({j \in 1..i : text[j] = "{"}) - Cardinality({j \in 1..i : text[j] = "}"})

\* json.loads(text) gives a dict: the text is one JSON object, that is a
\* brace that closes at the last token, with members and keyed nested
\* objects and no other text inside, and nothing before or after it
IsJsonObject(text) ==
  /\ Len(text) >= 2 /\ text[1] = "{"
  /\ \A i \in 2..Len(text) : text[i] = "{" => text[i - 1] = "k"
  /\ \A i \in 1..Len(text) : text[i] # "t"
  /\ \A i \in 1..(Len(text) - 1) : Depth(text, i) > 0
  /\ Depth(text, Len(text)) = 0

\* re.search(r'\{.*\}', response_text, re.DOTALL).group(): the pattern is
\* greedy, so the match runs from the first '{' to the last '}' of the
\* text; without a match the whole text is taken (lines 612-619)
JsonText(response_text) ==
  LET opens == {i \in DOMAIN response_text : response_text[i] = "{"}
      first == CHOOSE i \in opens : \A o \in opens : i <= o
      closes == {i \in DOMAIN response_text : response_text[i] = "}" /\ i > first}
      last == CHOOSE i \in closes : \A o \in closes : o <= i
  IN IF opens # {} /\ closes # {} THEN SubSeq(response_text, first, last)
     ELSE response_text

\* _estimate_manual_time from the text of the answer on, lines 602-636:
\* None for an empty text and when json.loads raises JSONDecodeError
EstimateFromText(response_text) ==
  IF response_text = <<>> THEN [decoded |-> FALSE, json |-> <<>>]
  ELSE LET json_text == JsonText(response_text)
       IN IF IsJsonObject(json_text) THEN [decoded |-> TRUE, json |-> json_text]
          ELSE [decoded |-> FALSE, json |-> <<>>]

ResponseInit ==
  /\ NoPipeline
  /\ \E response_text \in ResponseTexts :
       call = [fn |-> "_estimate_manual_time", response_text |-> response_text,
               returned |-> FALSE]

\* _estimate_manual_time returns
ReturnEstimate ==
  /\ call.fn = "_estimate_manual_time" /\ ~call.returned
  /\ call' = [fn |-> call.fn, response_text |-> call.response_text, returned |-> TRUE,
              value |-> EstimateFromText(call.response_text)]
  /\ UNCHANGED <<chatStore, chat_analysis, daily_aggregates, processing_log, run, folded, analytics_cache>>

ResponseNext == ReturnEstimate

ResponseSpec == ResponseInit /\ [][ResponseNext]_vars

\* ------------------------------------------- the fields of the LLM answer
\* The value of a field of the decoded answer: a whole number, a value
\* int() rejects with ValueError or TypeError (a word, null, a list, NaN),
\* a float infinity (1e999 or Infinity in the text), or no such key.
EstimateNumbers == {-5, 20, 60, 150}
JsonValues ==
  {[kind |-> "int", v |-> n] : n \in EstimateNumbers}
  \cup {[kind |-> "text", v |-> 0], [kind |-> "inf", v |-> 0], [kind |-> "missing", v |-> 0]}

\* non-empty JSON objects with some of the four keys
JsonAnswers ==
  [manual_time_low : JsonValues, manual_time_most_likely : JsonValues,
   manual_time_high : JsonValues, confidence_level : JsonValues]

\* the exception int(value) raises, "" when it returns
IntRaises(value) ==
  CASE value.kind = "text" -> "ValueError"
    [] value.kind = "inf" -> "OverflowError"
    [] OTHER -> ""

\* int(llm_response.get(key, 0)) when it returns
IntOf(value) == IF value.kind = "int" THEN value.v ELSE 0

\* _parse_time_estimates, lines 806-820, on a decoded answer: the four
\* conversions are evaluated in order; ValueError and TypeError give the
\* defaults, any other exception leaves the function
ParseTimeEstimatesJson(llm_response) ==
  LET order == <<llm_response.manual_time_low, llm_response.manual_time_most_likely,
                 llm_response.manual_time_high, llm_response.confidence_level>>
      failing == {i \in 1..4 : IntRaises(order[i]) # ""}
      error == IF failing = {} THEN ""
               ELSE IntRaises(order[CHOOSE i \in failing : \A o \in failing : i <= o])
  IN IF error = ""
     THEN [raised |-> "",
           low |-> Max(0, IntOf(order[1])),
           most_likely |-> Max(0, IntOf(order[2])),
           high |-> Max(0, IntOf(order[3])),
           confidence |-> Max(0, Min(100, IntOf(order[4])))]
     ELSE IF error = "ValueError"
     THEN [raised |-> "", low |-> 0, most_likely |-> 0, high |-> 0, confidence |-> 0]
     ELSE [raised |-> error, low |-> 0, most_likely |-> 0, high |-> 0, confidence |-> 0]

ParseInit ==
  /\ NoPipeline
  /\ \E llm_response \in JsonAnswers :
       call = [fn |-> "_analyze_chat", pc |-> "parse", llm_response |-> llm_response]

\* _analyze_chat from line 324 on, for a chat with two messages and eight
\* active minutes and an empty chat_analysis table: the answer is parsed,
\* the row stored and the result returned; an exception of the parsing or
\* of the store is caught at lines 370-372 and None returned
ParseAndStore ==
  /\ call.fn = "_analyze_chat" /\ call.pc = "parse"
  /\ \E db_ok \in BOOLEAN :
       LET time_estimates == ParseTimeEstimatesJson(call.llm_response)
           row == AnalysisRow({}, 1, ChatKinds[2], DateOf(ChatKinds[2].created_at), time_estimates)
           stored == time_estimates.raised = "" /\ db_ok /\ InsertAccepted({}, row)
       IN call' = [fn |-> call.fn, llm_response |-> call.llm_response,
                   pc |-> IF stored THEN "result" ELSE "return_none",
                   time_estimates |-> time_estimates, db_ok |-> db_ok]
  /\ UNCHANGED <<chatStore, chat_analysis, daily_aggregates, processing_log, run, folded, analytics_cache>>

ParseNext == ParseAndStore

ParseSpec == ParseInit /\ [][ParseNext]_vars

\* ------------------------------------------------------------------ claims
GlobalRows == {row \in daily_aggregates : row.user_id = NULL}
UserRows == {row \in daily_aggregates : row.user_id # NULL}
FoldedOf(row) == folded[<<row.analysis_date, row.user_id>>]
FinishedRun(r) == run[r].pc \in {"returned", "raised"}
LogCreated(r) == processing_log[r].status # "absent"

\* a row's counts and sums are those of all results folded into it
TotalsExact(row) ==
  /\ row.chat_count = FoldedOf(row).chats
  /\ row.message_count = FoldedOf(row).messages
  /\ row.total_time_saved = FoldedOf(row).saved
  /\ row.total_active_time = FoldedOf(row).active
  /\ row.total_manual_time_estimated = FoldedOf(row).manual

\* a row's average is the mean confidence of all chats folded into it
AverageExact(row) ==
  row.avg_confidence_level = Rat(FoldedOf(row).conf, FoldedOf(row).chats)

\* C1: after any sequence of aggregation passes the global row of a date
\* carries the counts and sums of all results folded into it and the exact
\* count-weighted mean of their confidence levels.
C1_GlobalMergeExact ==
  \A row \in GlobalRows : TotalsExact(row) /\ AverageExact(row)

\* C1 witness: a global row merged from a pass of two chats and a pass of
\* one chat with different confidence (the mean is not a whole number)
C1_Witness ==
  \E row \in GlobalRows :
    /\ FoldedOf(row).passes = 2 /\ row.chat_count = 3
    /\ row.avg_confidence_level[2] = 3

\* C2: after any sequence of passes a per-user row carries the counts and
\* sums of all of the user's results of the date and the exact
\* count-weighted mean of their confidence levels.
C2_UserMergeExact ==
  \A row \in UserRows : TotalsExact(row) /\ AverageExact(row)

\* C3: there is at most one ChatAnalysis row per chat id, and the attempt
\* to store an analysis for a chat that already has a row leaves the table
\* and the run's results unchanged (the chat yields no result).
C3_OneRowPerChat ==
  /\ [](\A a, b \in chat_analysis : a.chat_id = b.chat_id => a = b)
  /\ [][\A r \in RunIds :
          (/\ run[r].pc = "analyze"
           /\ \E row \in chat_analysis : row.chat_id = run[r].chats[run[r].idx + 1])
          => (/\ chat_analysis' = chat_analysis
              /\ (run'[r].pc \in {"analyze", "aggregate"} => run'[r].results = run[r].results))]_vars

\* C3 witness: a run has met, as its first chat, a chat that already had a
\* row, and the store attempt was rejected
C3_Witness ==
  \E r \in RunIds :
    /\ run[r].pc \in {"analyze", "aggregate"} /\ run[r].idx = 1
    /\ run[r].store_failed = 1 /\ run[r].results = <<>>
    /\ \E row \in chat_analysis : row.chat_id = run[r].chats[1]

C5_LogTransitions ==
  [][\A r \in RunIds :
       /\ (processing_log[r].status \in {"completed", "failed"}
           => processing_log'[r] = processing_log[r])
       /\ (processing_log'[r].status # processing_log[r].status
           => \/ processing_log[r].status = "absent" /\ processing_log'[r].status = "running"
              \/ processing_log[r].status = "running"
                 /\ processing_log'[r].status \in {"completed", "failed"})]_vars

\* C5 witness: a completed row of an earlier run and a failed row of a
\* later run
C5_Witness ==
  \E r, o \in RunIds :
    r < o /\ processing_log[r].status = "completed" /\ processing_log[o].status = "failed"

C8_SkipNotFailed ==
  \A r \in RunIds :
    run[r].pc = "invalidate"
    => /\ run[r].result.chats_failed = run[r].llm_failed + run[r].store_failed
       /\ processing_log[r].chats_failed = run[r].llm_failed + run[r].store_failed

CountOf(table, d, u) ==
  LET found == FindAggregates(table, d, u)
  IN IF found = {} THEN 0 ELSE (CHOOSE row \in found : TRUE).chat_count

\* C10: an aggregation pass is all-or-nothing: daily_aggregates changes
\* only in the step in which a pass returns, and then the rows of every
\* date and every (date, user) of the batch have taken the batch's chats;
\* a pass that raises leaves the table as it was.
C10_PassAtomic ==
  [][\A r \in RunIds :
       /\ (run[r].pc = "aggregate" /\ run'[r].pc = "handler")
          => daily_aggregates' = daily_aggregates
       /\ (run[r].pc = "aggregate" /\ run'[r].pc = "complete")
          => \A k \in AggKeys :
               CountOf(daily_aggregates', k[1], k[2]) =
                 CountOf(daily_aggregates, k[1], k[2])
                 + Len(IF k[2] = NULL THEN SelectField(run[r].results, "chat_date", k[1])
                       ELSE SelectField(SelectField(run[r].results, "chat_date", k[1]),
                                        "user_id", k[2]))
       /\ (run[r].pc # "aggregate" /\ Executing(r)) => daily_aggregates' = daily_aggregates]_vars

\* C10 witness: a pass over a batch with two dates has raised
C10_Witness ==
  \E r \in RunIds :
    /\ run[r].pc = "handler" /\ run[r].error = "aggregate_error"
    /\ NumDates(run[r].results) = 2

\* the chat of the store a result or a row was made from
ChatOf(chat_id) == chatStore[chat_id]

\* C11: every ChatAnalysis row and every result handed to the aggregator
\* carries the calendar date of its chat's created_at, and an aggregation
\* pass creates or changes only DailyAggregate rows keyed by the creation
\* date (and, for per-user rows, the user) of a chat of the batch, whatever
\* date the run targets.
C11_KeyedByCreationDate ==
  /\ [](/\ \A row \in chat_analysis :
              row.chat_date = DateOf(ChatOf(row.chat_id).created_at)
        /\ \A r \in RunIds : \A i \in DOMAIN run[r].results :
              run[r].results[i].chat_date = DateOf(ChatOf(run[r].results[i].chat_id).created_at))
  /\ [][\A k \in AggKeys :
          FindAggregates(daily_aggregates', k[1], k[2]) # FindAggregates(daily_aggregates, k[1], k[2])
          => \E r \in RunIds : \E i \in DOMAIN run[r].results :
               /\ run[r].pc = "aggregate"
               /\ DateOf(ChatOf(run[r].results[i].chat_id).created_at) = k[1]
               /\ k[2] \in {NULL, ChatOf(run[r].results[i].chat_id).user}]_vars

\* C11 witness: a run targeting day 2 has aggregated a batch of chats
\* created on day 1: only rows of day 1 exist
C11_Witness ==
  \E r \in RunIds :
    /\ run[r].pc = "complete" /\ run[r].target_date = 2 /\ run[r].results # <<>>
    /\ \A i \in DOMAIN run[r].results : DateOf(ChatOf(run[r].results[i].chat_id).created_at) = 1
    /\ \E row \in daily_aggregates : row.analysis_date = 1
    /\ \A row \in daily_aggregates : row.analysis_date # 2

\* a call of _calculate_time_metrics that has returned
MetricsReturned == call.fn = "_calculate_time_metrics" /\ call.returned

\* C12: for every message list and every pair of created/updated
\* timestamps, _calculate_time_metrics returns total_duration_minutes >= 0,
\* 0 <= active_duration_minutes <= total_duration_minutes and
\* idle_time_minutes = total_duration_minutes - active_duration_minutes.
C12_MetricsConsistent ==
  MetricsReturned
  => /\ call.value.total_duration_minutes >= 0
     /\ call.value.active_duration_minutes >= 0
     /\ call.value.active_duration_minutes <= call.value.total_duration_minutes
     /\ call.value.idle_time_minutes =
          call.value.total_duration_minutes - call.value.active_duration_minutes

\* the seconds of the gaps of at most the idle threshold between
\* consecutive timestamps of an ascending list, from position i on
RECURSIVE ActiveSecondsFrom(_, _)
ActiveSecondsFrom(sorted, i) ==
  IF i > Len(sorted) THEN 0
  ELSE (IF sorted[i] - sorted[i - 1] <= 60 * idle_threshold_minutes
        THEN sorted[i] - sorted[i - 1] ELSE 0) + ActiveSecondsFrom(sorted, i + 1)

\* C13: the active duration is the whole-minute floor of the sum of the
\* gaps of at most idle_threshold_minutes between consecutive timestamps
\* in ascending order, and 0 for fewer than two timestamps.
C13_ActiveIsFloorOfGapSum ==
  MetricsReturned
  => call.value.active_duration_minutes =
       ActiveSecondsFrom(SortSeq(TimestampsOf(call.messages), LAMBDA a, b : a < b), 2) \div 60

\* C14: every ChatAnalysis row has 0 <= manual_time_low <=
\* manual_time_most_likely <= manual_time_high and 0 <= confidence_level
\* <= 100, whatever the LLM answered.
C14_StoredEstimatesValid ==
  \A row \in chat_analysis :
    /\ 0 <= row.manual_time_low
    /\ row.manual_time_low <= row.manual_time_most_likely
    /\ row.manual_time_most_likely <= row.manual_time_high
    /\ 0 <= row.confidence_level /\ row.confidence_level <= 100

\* C14 witness: an answer with a negative low and a confidence above 100
\* was stored clamped, and in the same run an answer was not stored
C14_Witness ==
  /\ \E row \in chat_analysis :
       /\ row.manual_time_low = 0 /\ row.manual_time_most_likely = 5
       /\ row.confidence_level = 100
  /\ \E r \in RunIds : run[r].pc = "aggregate" /\ run[r].store_failed = 1
                         /\ Cardinality(chat_analysis) = 1

\* time_saved_minutes of a row or result is the excess of the estimate
\* over the active time, and 0 when there is none
SavedIsFlooredExcess(x) ==
  /\ x.time_saved_minutes >= 0
  /\ x.time_saved_minutes =
       (IF x.manual_time_most_likely > x.active_duration_minutes
        THEN x.manual_time_most_likely - x.active_duration_minutes ELSE 0)

\* C15: every ChatAnalysis row and every result handed to the aggregator
\* has time_saved_minutes = max(0, manual_time_most_likely -
\* active_duration_minutes).
C15_TimeSavedFloor ==
  /\ \A row \in chat_analysis : SavedIsFlooredExcess(row)
  /\ \A r \in RunIds : \A i \in DOMAIN run[r].results : SavedIsFlooredExcess(run[r].results[i])

\* C15 witness: estimate 60 with active 8 stored as 52, estimate 5 with
\* active 8 stored as 0, and both results are in the batch of one run
C15_Witness ==
  /\ \E row \in chat_analysis :
       /\ row.manual_time_most_likely = 60 /\ row.active_duration_minutes = 8
       /\ row.time_saved_minutes = 52
  /\ \E row \in chat_analysis :
       /\ row.manual_time_most_likely = 5 /\ row.active_duration_minutes = 8
       /\ row.time_saved_minutes = 0
  /\ \E r \in RunIds : run[r].pc = "aggregate" /\ Len(run[r].results) = 2
       /\ {run[r].results[i].time_saved_minutes : i \in 1..2} = {0, 52}

\* C16: within a run the aggregation is a barrier: it is entered only
\* when every chat the run fetched has been analyzed, DailyAggregate rows
\* are written only by that step, and the step is taken at most once (a
\* run that has left it never analyzes or aggregates again).
C16_AggregationBarrier ==
  /\ [](\A r \in RunIds : run[r].pc = "aggregate" => run[r].idx = Len(run[r].chats))
  /\ [][/\ daily_aggregates' # daily_aggregates
            => \E r \in RunIds : /\ run[r].pc = "aggregate" /\ run'[r].pc = "complete"
                                  /\ run[r].idx = Len(run[r].chats)
        /\ \A r \in RunIds :
             /\ run[r].pc = "aggregate" => run'[r].pc \in {"aggregate", "complete", "handler"}
             /\ run[r].pc \in {"complete", "invalidate", "handler", "returned", "raised"}
                => run'[r].pc \notin {"fetch", "analyze", "aggregate"}]_vars

\* C16 witness: a run over three chats, one of which failed, has written
\* the aggregates of its two results
C16_Witness ==
  \E r \in RunIds :
    /\ run[r].pc = "complete" /\ Len(run[r].chats) = 3 /\ run[r].idx = 3
    /\ run[r].failed_count = 1 /\ Len(run[r].results) = 2
    /\ \E row \in GlobalRows : row.chat_count = 2

\* C17: after a batch run that processed at least one chat has returned,
\* no value cached before the run completed is left in the cache: the next
\* call of each read query with the arguments it was cached under
\* recomputes from the database.  (Run r is the r-th run to finish, so an
\* entry created before it finished has created_at < r.)
C17_PreRunValuesInvalidated ==
  \A r \in RunIds :
    run[r].pc = "returned" /\ run[r].result.chats_processed >= 1
      => \A e \in analytics_cache : e.created_at >= r

\* the summary of the chat has been built and returned
SummaryBuilt ==
  call.fn = "_analyze_chat" /\ call.pc = "estimate"

RangeOf(seq) == {seq[i] : i \in DOMAIN seq}

\* C18: the chat_summary handed to the LLM and to the store holds no email
\* address and no 3-3-4 phone number, whether it came from the title or
\* from an included message
C18_NoRawPII ==
  SummaryBuilt =>
    (RangeOf(call.chat_summary.topic) \cup RangeOf(call.chat_summary.content_overview))
      \cap (EmailTokens \cup PhoneTokens) = {}

\* C19: building the summary never ends the analysis of a chat: whatever
\* the title and the contents, the analysis goes on to the LLM estimation
C19_SummaryNeverAborts ==
  call.fn = "_analyze_chat" => call.pc \in {"summary", "estimate"}

\* the chat.completions.create calls run r has made: one for every chat
\* that reached _estimate_manual_time, whether the answer was usable or
\* not and whether the analysis was stored afterwards or not
LLMCallsMade(r) == run[r].processed_count + run[r].llm_failed + run[r].store_failed

\* C20: the total_llm_requests written to the log of a completed run is
\* the number of LLM completion calls the run made
C20_LLMRequestsCounted ==
  \A r \in RunIds :
    run[r].pc = "invalidate" /\ processing_log[r].status = "completed"
      => processing_log[r].total_llm_requests = LLMCallsMade(r)

\* C21: with an empty results list (no candidate chat, or every candidate
\* skipped or failed) the aggregation step leaves daily_aggregates as it
\* is and does not raise: the run goes on to write its log row, and the
\* row and the result it then has say completed.
C21_EmptyResultsNoOp ==
  /\ [][\A r \in RunIds :
          /\ (run[r].pc = "aggregate" /\ run[r].results = <<>>)
             => daily_aggregates' = daily_aggregates /\ run'[r].pc = "complete"
          /\ (run[r].pc = "fetch" /\ run'[r].pc = "complete")
             => daily_aggregates' = daily_aggregates /\ run'[r].results = <<>>]_vars
  /\ [](\A r \in RunIds :
          (run[r].pc \in {"invalidate", "returned"} /\ run[r].result.chats_processed = 0)
          => /\ run[r].result.status = "completed"
             /\ processing_log[r].status = "completed"
             /\ processing_log[r].chats_processed = 0)

\* C21 witness: a run whose two candidates both failed has passed the
\* aggregation and completed, and no aggregate row exists
C21_Witness ==
  \E r \in RunIds :
    /\ run[r].pc = "invalidate" /\ Len(run[r].chats) = 2 /\ run[r].results = <<>>
    /\ run[r].failed_count = 2
    /\ processing_log[r].status = "completed"
    /\ daily_aggregates = {}

\* C22: the ChatAnalysis table only grows: no step of a run changes or
\* deletes a row, and a row that is added is for a chat id (and has an id)
\* that no row had.
C22_AnalysisRowsImmutable ==
  [][/\ chat_analysis \subseteq chat_analysis'
     /\ \A new \in chat_analysis' \ chat_analysis :
          \A old \in chat_analysis : old.chat_id # new.chat_id /\ old.id # new.id]_vars

\* C22 witness: a second run has met a chat that already had a row, has
\* analyzed and stored another chat, and has aggregated
C22_Witness ==
  \E r \in RunIds :
    /\ r > 1 /\ run[r].pc = "invalidate"
    /\ run[r].store_failed = 1 /\ run[r].processed_count = 1
    /\ Cardinality(chat_analysis) = 2

\* C23: no two DailyAggregate rows have the same (analysis_date, user_id);
\* a date with aggregated chats has exactly one global row and exactly one
\* row for every user with an aggregated chat of that date, and a date
\* with a user row has its global row.
C23_OneRowPerKey ==
  \A k \in AggKeys :
    LET rows == {row \in daily_aggregates : row.analysis_date = k[1] /\ row.user_id = k[2]}
    IN /\ Cardinality(rows) <= 1
       /\ folded[k].chats > 0 => Cardinality(rows) = 1
       /\ (k[2] # NULL /\ rows # {})
          => \E g \in daily_aggregates : g.analysis_date = k[1] /\ g.user_id = NULL

\* C23 witness: two passes have folded chats of two users into the rows of
\* one date
C23_Witness ==
  \E d \in Dates :
    /\ folded[<<d, NULL>>].passes = 2
    /\ \A u \in Users : folded[<<d, u>>].chats > 0
    /\ Cardinality({row \in daily_aggregates : row.analysis_date = d}) = 3

\* the JSON objects that lie in a text, as <<first, last>> positions
ObjectsIn(text) ==
  {p \in (DOMAIN text) \X (DOMAIN text) : p[1] < p[2] /\ IsJsonObject(SubSeq(text, p[1], p[2]))}

\* C24: when the text of the answer holds a JSON object, with whatever
\* text around it (braces included), _estimate_manual_time returns the
\* decoded first object of the text
C24_FirstObjectDecoded ==
  (call.fn = "_estimate_manual_time" /\ call.returned /\ ObjectsIn(call.response_text) # {})
  => LET first == CHOOSE p \in ObjectsIn(call.response_text) :
                    \A o \in ObjectsIn(call.response_text) : p[1] <= o[1]
     IN /\ call.value.decoded
        /\ call.value.json = SubSeq(call.response_text, first[1], first[2])

\* the answer has been parsed and the analysis of the chat has ended
Parsed == call.fn = "_analyze_chat" /\ call.pc \in {"result", "return_none"}

AllZero(est) == est.low = 0 /\ est.most_likely = 0 /\ est.high = 0 /\ est.confidence = 0

\* C25: for every JSON object of the LLM _parse_time_estimates does not
\* raise; a missing field counts 0, negative values become 0 and a
\* confidence above 100 becomes 100; when a field cannot be converted the
\* estimate is all zero, and the chat is then stored and gives a result
\* (unless the database fails).
C25_MalformedDefaulted ==
  Parsed =>
    LET answer == call.llm_response
        est == call.time_estimates
        values == {answer.manual_time_low, answer.manual_time_most_likely,
                   answer.manual_time_high, answer.confidence_level}
    IN /\ est.raised = ""
       /\ (\A value \in values : value.kind \in {"int", "missing"})
          => /\ est.low = Max(0, IntOf(answer.manual_time_low))
             /\ est.most_likely = Max(0, IntOf(answer.manual_time_most_likely))
             /\ est.high = Max(0, IntOf(answer.manual_time_high))
             /\ est.confidence = Max(0, Min(100, IntOf(answer.confidence_level)))
       /\ (\E value \in values : value.kind \notin {"int", "missing"})
          => AllZero(est) /\ (call.db_ok => call.pc = "result")

\* the health status the most recently started ProcessingLog row stands for
ExpectedHealth ==
  LET started == {r \in RunIds : processing_log[r].status # "absent"}
      latest == CHOOSE r \in started : \A o \in started : o <= r
  IN IF started = {} THEN [status |-> "no_data", last_processing_run |-> "None"]
     ELSE [status |-> IF processing_log[latest].status = "completed" THEN "healthy" ELSE "warning",
           last_processing_run |->
             IF processing_log[latest].writes > 0 THEN "completed_at" ELSE "None"]

\* a call of get_health_status_data returns in this step
HealthReturns == call' # call /\ call'.fn = "get_health_status_data"

HealthKey == CacheKeyGenerator("get_health_status_data", <<Analytics>>)

\* C26 as stated: the status get_health_status_data reports is that of
\* the most recently started ProcessingLog row: no_data without a row,
\* healthy when the row is completed, warning otherwise.
C26_HealthOfLatestLog ==
  [][HealthReturns => call'.value = ExpectedHealth]_vars

\* C26 amended: the status get_health_status_data computes, and stores in
\* the cache, is that of the most recently started ProcessingLog row; a
\* call returns either that status or the one a call before it computed
\* and the cache still holds.
C26_HealthOfLatestLogOrCached ==
  /\ [][\A e \in analytics_cache' \ analytics_cache :
          e.key = HealthKey => e.value = ExpectedHealth]_vars
  /\ [][HealthReturns =>
          \/ call'.value = ExpectedHealth
          \/ \E e \in analytics_cache : e.key = HealthKey /\ e.value = call'.value]_vars

\* C26 witness: the status was computed as warning while a completed row
\* of an earlier run exists and the row started last is failed
C26_Witness ==
  /\ call.fn = "get_health_status_data" /\ call.value.status = "warning"
  /\ call.created_at = 2
  /\ processing_log[1].status = "completed" /\ processing_log[2].status = "failed"

\* the ChatAnalysis rows of date d
AnalysesOn(d) == {row \in chat_analysis : row.chat_date = d}

RECURSIVE SumSaved(_)
SumSaved(rows) ==
  IF rows = {} THEN 0
  ELSE LET row == CHOOSE x \in rows : TRUE
       IN row.time_saved_minutes + SumSaved(rows \ {row})

\* total_time_saved of the global row of date d, 0 when there is none
GlobalSavedOf(d) ==
  LET found == FindAggregates(daily_aggregates, d, NULL)
  IN IF found = {} THEN 0 ELSE (CHOOSE row \in found : TRUE).total_time_saved

\* C27: when every batch run has ended, completed or failed, the global
\* row of every date counts exactly the ChatAnalysis rows of that date and
\* totals their time_saved_minutes: no analyzed chat is missing from the
\* aggregates and none is counted twice.
C27_AggregatesMatchAnalyses ==
  (\A r \in RunIds : FinishedRun(r))
  => \A d \in Dates :
       /\ CountOf(daily_aggregates, d, NULL) = Cardinality(AnalysesOn(d))
       /\ GlobalSavedOf(d) = SumSaved(AnalysesOn(d))

\* C28: for any interleaving of two batch runs, once both have finished
\* no chat has been folded into the aggregates twice, every date has at
\* most one global DailyAggregate row, and the chat_count of that row is
\* the number of ChatAnalysis rows of the date
BothFinished == \A r \in RunIds : FinishedRun(r)

FoldedOnce(d) == folded[<<d, NULL>>].chats <= Cardinality(AnalysesOn(d))

GlobalChatCount(d) ==
  IF FindAggregates(daily_aggregates, d, NULL) = {} THEN 0
  ELSE (CHOOSE row \in FindAggregates(daily_aggregates, d, NULL) : TRUE).chat_count

C28_InterleavedRunsConsistent ==
  BothFinished =>
    \A d \in Dates :
      /\ FoldedOnce(d)
      /\ Cardinality(FindAggregates(daily_aggregates, d, NULL)) <= 1
      /\ GlobalChatCount(d) = Cardinality(AnalysesOn(d))

\* every chat that has messages has its ChatAnalysis row
AllStored ==
  \A c \in DOMAIN chatStore :
    chatStore[c].messages > 0 => \E row \in chat_analysis : row.chat_id = c

\* run 2 is the second run over the store and has stored nothing so far
SecondRunPending == FinishedRun(1) /\ ~FinishedRun(2) /\ run[2].processed_count = 0

TablesUnchanged == chat_analysis' = chat_analysis /\ daily_aggregates' = daily_aggregates

EndsCompletedWithZero ==
  /\ run'[2].processed_count = 0
  /\ FinishedRun(2)' =>
       /\ run'[2].pc = "returned"
       /\ run'[2].result.status = "completed"
       /\ run'[2].result.chats_processed = 0
       /\ processing_log'[2].status = "completed"
       /\ processing_log'[2].chats_processed = 0

UserRowsOn(d) == {row \in UserRows : row.analysis_date = d}

\* the sum of column f over a set of rows
RECURSIVE SumOverRows(_, _)
SumOverRows(rows, f) ==
  IF rows = {} THEN 0
  ELSE LET row == CHOOSE x \in rows : TRUE
       IN row[f] + SumOverRows(rows \ {row}, f)

SummedColumns ==
  {"chat_count", "message_count", "total_time_saved", "total_active_time",
   "total_manual_time_estimated"}

\* C30: after any sequence of aggregation passes, the global row of a date
\* equals the sum of the per-user rows of the date in chat_count,
\* message_count, total_time_saved, total_active_time and
\* total_manual_time_estimated (and a date without a global row has no
\* per-user row)
C30_GlobalIsSumOfUsers ==
  \A d \in Dates :
    IF FindAggregates(daily_aggregates, d, NULL) = {}
    THEN UserRowsOn(d) = {}
    ELSE \A row \in FindAggregates(daily_aggregates, d, NULL) :
           \A f \in SummedColumns : row[f] = SumOverRows(UserRowsOn(d), f)

\* C30 witness: two passes have folded chats into a date that has rows of
\* both users, and the global row exceeds each of them
C30_Witness ==
  \E d \in Dates :
    /\ folded[<<d, NULL>>].passes >= 2
    /\ Cardinality(UserRowsOn(d)) = 2
    /\ \E row \in FindAggregates(daily_aggregates, d, NULL) :
         \A u \in UserRowsOn(d) : row.total_active_time > u.total_active_time

\* the step writes the terminal state of run r's ProcessingLog row
LogRowCompleted(r) ==
  /\ processing_log[r].status = "running"
  /\ processing_log'[r].status \in {"completed", "failed"}

\* C31: the chats_processed and chats_failed written to a run's
\* ProcessingLog row, in either terminal state, are the number of
\* ChatAnalysis rows the run inserted and, together, the number of chats
\* the run iterated over
C31_LogCountsDescribeRun ==
  [][\A r \in RunIds :
       LogRowCompleted(r) =>
         /\ processing_log'[r].chats_processed = run[r].processed_count
         /\ processing_log'[r].chats_processed + processing_log'[r].chats_failed = run[r].idx]_vars

\* the step is a firing of the daily job
JobFires == call' # call /\ call'.fn = "_daily_processing_job"

\* C32: each firing of the scheduled daily job starts one batch run for
\* the previous calendar day, which creates that run's ProcessingLog row,
\* and no exception leaves the job
C32_DailyJobStartsRun ==
  [][JobFires =>
       /\ call'.raised = ""
       /\ \E r \in RunIds :
            /\ processing_log[r].status = "absent"
            /\ processing_log'[r].status = "running"
            /\ run'[r].target_date = call'.yesterday]_vars

\* the step is the return of a set call of thread t
SetReturns(t) == call.pending[t] # NotInSet /\ call'.pending[t] = NotInSet

\* the step is a get call that returns a value
GetReturnsValue ==
  /\ call'.last.op = "get" /\ call'.last.returned # None
  /\ call'.pending = call.pending /\ call'.now = call.now

\* more than ttl_seconds have passed since the entry was created
TtlElapsed(entry, now) == now - entry.created_at > entry.ttl_seconds

\* C33: under any interleaving of the method calls of several threads the
\* cache never holds more than max_size entries, a set(k, v) that returns
\* leaves k present with value v, and get never returns the value of an
\* entry whose TTL has elapsed
C33_CacheThreadSafe ==
  /\ [](IsLru => Len(call.cache) <= LruMaxSize)
  /\ [][\A t \in Threads :
          SetReturns(t) =>
            \E i \in DOMAIN call'.cache :
              /\ call'.cache[i].key = call.pending[t].key
              /\ call'.cache[i].value = call.pending[t].value]_vars
  /\ [][GetReturnsValue =>
          \E i \in DOMAIN call.cache :
            /\ call.cache[i].key = call'.last.key
            /\ call.cache[i].value = call'.last.returned
            /\ ~TtlElapsed(call.cache[i], call.now)]_vars

\* C33 witness: a set has returned into a full cache that holds an entry
\* whose TTL has elapsed, while the other thread is inside set
C33_Witness ==
  /\ IsLru
  /\ Len(call.cache) = LruMaxSize
  /\ call.last.op = "set"
  /\ \E t \in Threads : call.pending[t] # NotInSet
  /\ \E i \in DOMAIN call.cache : TtlElapsed(call.cache[i], call.now)

\* the step is the return of a set call of thread t on a full cache
SetOnFullCache(t) == SetReturns(t) /\ Len(call.cache) = LruMaxSize

\* C34: set on a cache that holds max_size entries removes exactly the
\* entries needed to make room, the least recently used first (a get hit
\* and a set of a key are uses of the key); a set of a key that is present
\* removes no other key
C34_EvictsLeastRecentlyUsed ==
  [][\A t \in Threads :
       SetOnFullCache(t) =>
         IF call.pending[t].key \in KeysOf(call.cache)
         THEN KeysOf(call'.cache) = KeysOf(call.cache)
         ELSE KeysOf(call'.cache) =
                (KeysOf(call.cache) \ {Head(call.used)}) \cup {call.pending[t].key}]_vars

\* the cached functions whose key prefix a pattern of the operation names
FunctionsNamed(operation_type) ==
  CASE operation_type = "conversation_analysis_updated" ->
         {"get_summary_data", "get_trends_data"}
    [] operation_type = "daily_aggregates_updated" ->
         {"get_summary_data", "get_trends_data", "get_user_breakdown_data"}
    [] operation_type = "user_data_updated" -> {"get_user_breakdown_data", "get_chats_data"}
    [] operation_type = "processing_run_completed" -> {"get_health_status_data"}
    [] OTHER -> {}

\* the step is a call of data_change_invalidation that returns
InvalidationReturns ==
  call'.last.op = "data_change_invalidation" /\ call'.last # call.last

\* C35: data_change_invalidation for a known operation type removes every
\* entry the @cached decorator stored for the functions named in the
\* pattern list of the operation, and returns the number of entries removed
C35_NamedEntriesRemoved ==
  [][InvalidationReturns =>
       /\ \A i \in DOMAIN call'.cache :
            call'.cache[i].value \notin FunctionsNamed(call'.last.operation_type)
       /\ call'.last.returned = Len(call.cache) - Len(call'.cache)]_vars

\* the step is a call of record_failure, of record_success
FailureRecorded == call'.last.op = "record_failure" /\ call'.inside # call.inside
SuccessRecorded == call'.last.op = "record_success" /\ call'.inside # call.inside

\* C36: a CLOSED breaker opens exactly when failure_threshold failures have
\* been recorded with no success in between; a recorded success sets
\* failure_count to 0, and failure_count never exceeds the number of
\* failures recorded since the last success
C36_OpensAtThreshold ==
  /\ [](IsBreaker => call.breaker.failure_count <= call.since)
  /\ [][(IsBreaker /\ call.breaker.state = "closed") =>
          (call'.breaker.state = "open"
             <=> (FailureRecorded /\ call'.since = FailureThreshold))]_vars
  /\ [][SuccessRecorded => call'.breaker.failure_count = 0]_vars

\* C36 witness: the breaker has just opened from CLOSED, after an earlier
\* success had been recorded in between failures
C36_Witness ==
  /\ IsBreaker
  /\ call.breaker.state = "open"
  /\ call.last.op = "record_failure" /\ call.last.was = "closed"
  /\ call.breaker.failure_count = FailureThreshold
  /\ call.reset

\* the step is a call of protect that has evaluated can_execute
ProtectCalled == call'.last.op = "can_execute" /\ call'.last # call.last

\* less than recovery_timeout has elapsed since the last recorded failure
InRecoveryTimeout == call.now - call.breaker.last_failure_time < RecoveryTimeout

\* C37: while the breaker is OPEN and less than recovery_timeout has
\* elapsed since the last recorded failure, protect raises
\* CircuitBreakerError, the operation is not run and failure_count is
\* unchanged; the first call after the timeout moves it to HALF_OPEN and
\* runs; a success in HALF_OPEN returns it to CLOSED and a failure in
\* HALF_OPEN returns it to OPEN
C37_OpenBlocksThenProbes ==
  /\ [][(ProtectCalled /\ call.breaker.state = "open" /\ InRecoveryTimeout) =>
          /\ ~call'.last.returned
          /\ call'.inside = call.inside
          /\ call'.breaker = call.breaker]_vars
  /\ [][(ProtectCalled /\ call.breaker.state = "open" /\ ~InRecoveryTimeout) =>
          /\ call'.breaker.state = "half_open"
          /\ call'.last.caller \in call'.inside]_vars
  /\ [][(SuccessRecorded /\ call.breaker.state = "half_open") =>
          call'.breaker.state = "closed"]_vars
  /\ [][(FailureRecorded /\ call.breaker.state = "half_open") =>
          call'.breaker.state = "open"]_vars

\* C38: a function wrapped by retry_with_exponential_backoff (or its async
\* variant) with max_attempts >= 1 is called at most max_attempts times
\* and the wrapper terminates: it returns the first successful result with
\* no further call, re-raises a non-retryable exception at once with no
\* further call, and after max_attempts retryable failures raises the last
\* exception
C38_RetryBounded ==
  /\ [](IsRetry => call.calls <= call.max_attempts)
  /\ [][(IsRetry /\ call.status # "running") => call' = call]_vars
  /\ [][(IsRetry /\ call.status = "running" /\ call'.status = "raised") =>
          \/ call'.raised = [type |-> "other", call |-> call.calls + 1]
          \/ /\ call'.raised = [type |-> "retryable", call |-> call'.max_attempts]
             /\ call'.calls = call'.max_attempts]_vars
  /\ <>(IsRetry => call.status # "running")

\* C39: a function wrapped by resilient_database_operation that raises
\* ConnectionError, TimeoutError or OSError is retried, up to 3 attempts
\* in total while the circuit breaker stays closed, whatever the message
\* of the exception is; each failed attempt is recorded as one failure on
\* the circuit breaker of the operation
FuncRaisedRetryable ==
  /\ IsResilient /\ call.status = "running"
  /\ call'.calls = call.calls + 1
  /\ call'.last.ran /\ IsRetryable(call'.last.o.type)

C39_RetriedWhateverMessage ==
  /\ [](IsResilient => call.calls <= ResilientAttempts)
  /\ [][FuncRaisedRetryable =>
          /\ call'.breaker.failure_count = call.breaker.failure_count + 1
          /\ (call'.calls < ResilientAttempts /\ call'.breaker.state = "closed")
               => call'.status = "running"]_vars
====
